---------------------------- MODULE Spec2Model ----------------------------
(***************************************************************************)
(* Version bumping in devwithshahzaib/changelog-testing.                   *)
(*                                                                         *)
(* Two implementations of the bump rule live in the repository:            *)
(*   - VersionManager.calculateNextVersion  (test/workflow.test.js)        *)
(*   - the bump script upgrade_version.js   (unnamed/part_000)             *)
(* Strings are sequences of one-character strings, so that parsing         *)
(* (RegExp match, split, parseInt, Number) and rendering (template         *)
(* literal, join) are computed and not assumed.                            *)
(***************************************************************************)
EXTENDS Integers, Sequences, FiniteSets

VARIABLES
    version,     \* the version string of package.json / handed to the first call
    increment,   \* the increment kind: argument `increment` / process.argv[2]
    pc,          \* "ready", or "called" once calculateNextVersion has been called
    script,      \* "idle", or "exited" once the bump script has run
    arg,         \* currentVersion of the latest calculateNextVersion call
    returned,    \* outcome of the latest calculateNextVersion call
    calls,       \* number of calculateNextVersion calls made in a row
    stdout,      \* lines the script printed with console.log
    stderr,      \* lines the script printed with console.error
    exitCode,    \* exit status of the script process
    packageRead  \* whether the script has read package.json

bumpVars == <<version, increment, pc, script, arg, returned, calls, stdout, stderr,
              exitCode, packageRead>>

\* VersionManager's file operations (getCurrentVersion, updatePackageVersion)
VARIABLES
    packageFile, \* the file at packagePath: whether it exists and what it holds
    pkgPc,       \* position of the caller in read -> calculate -> write
    got,         \* outcome of the latest getCurrentVersion
    computed,    \* outcome of the latest calculateNextVersion of a cycle
    lastUpdate,  \* the latest updatePackageVersion: its argument, the file before it
    cycles       \* number of read -> calculate -> write cycles completed

pkgVars == <<packageFile, pkgPc, got, computed, lastUpdate, cycles>>

\* CHANGELOG.md and the calls of ChangelogManager on it
VARIABLES changelogFile, clPc, entryInput, changelogEntry, inserted, lastBefore

clVars == <<changelogFile, clPc, entryInput, changelogEntry, inserted, lastBefore>>

\* The repository on GitHub, the push event being handled and the workflow run;
\* the number of commits pushed to the default branch, the push whose run waits
\* in the concurrency group, the push of a run that GitHub has yet to handle
VARIABLES branchName, remote, event, atTrigger, run, pushes, branchHead, pending, delivery

wfVars == <<branchName, remote, event, atTrigger, run, pushes, branchHead, pending, delivery>>

\* A chain of bumps, each fed the version the one before produced
VARIABLES chainBy, chain, chainKinds

chainVars == <<chainBy, chain, chainKinds>>

\* The HTTP app, the requests it was sent and the lines it logged
VARIABLES app, requests, console

httpVars == <<app, requests, console>>

\* The runs of the workflow in their concurrency groups, and for each branch the
\* number of version commits on it
VARIABLES groupRuns, branchVersion

groupVars == <<groupRuns, branchVersion>>

vars == <<bumpVars, pkgVars, clVars, wfVars, chainVars, httpVars, groupVars>>

notBumpVars == <<pkgVars, clVars, wfVars, chainVars, httpVars, groupVars>>
notPkgVars == <<bumpVars, clVars, wfVars, chainVars, httpVars, groupVars>>
notClVars == <<bumpVars, pkgVars, wfVars, chainVars, httpVars, groupVars>>
notWfVars == <<bumpVars, pkgVars, clVars, chainVars, httpVars, groupVars>>
notChainVars == <<bumpVars, pkgVars, clVars, wfVars, httpVars, groupVars>>
notHttpVars == <<bumpVars, pkgVars, clVars, wfVars, chainVars, groupVars>>
notGroupVars == <<bumpVars, pkgVars, clVars, wfVars, chainVars, httpVars>>

---------------------------------------------------------------------------
(* Bounds of the model *)

MaxDigits == 3      \* longest patch component among the generated triplets
MaxParts == 4       \* most dot-separated parts among the generated malformed strings
MaxCalls == 2       \* calculateNextVersion calls chained, each fed the previous result
MaxCycles == 3      \* read -> calculate -> write cycles on one package.json
MaxShaLen == 9      \* longest proper prefix of the mock SHA given as a commit SHA
MaxLines == 4       \* most lines of a generated initial CHANGELOG.md
MaxEntries == 2     \* updateChangelog calls on one CHANGELOG.md
MaxPushes == 2      \* pushes of users to the repository
MaxChain == 3       \* bumps chained with kinds chosen freely
MaxRuns == 3        \* runs of the workflow made by pushes to its branches
MaxRequests == 2    \* requests sent to the HTTP app

---------------------------------------------------------------------------
(* JavaScript values *)

Undefined == "#undefined"            \* an omitted argument / missing argv entry

Str(s) == [t |-> "str", s |-> s, n |-> 0]
Num(n) == [t |-> "num", s |-> <<>>, n |-> n]
NaN == [t |-> "nan", s |-> <<>>, n |-> 0]
Hole == [t |-> "undefined", s |-> <<>>, n |-> 0]

DigitChars == <<"0", "1", "2", "3", "4", "5", "6", "7", "8", "9">>

IsDigit(c) == \E i \in 1..10 : DigitChars[i] = c

DigitVal(c) == (CHOOSE i \in 1..10 : DigitChars[i] = c) - 1

IsWhiteSpace(c) == c \in {" ", "\n", "\t", "\r", "\f"}

\* Number(s) for a string of decimal digits (the RegExp groups)
RECURSIVE ToNumber(_)
ToNumber(s) ==
    IF s = <<>> THEN 0
    ELSE 10 * ToNumber(SubSeq(s, 1, Len(s) - 1)) + DigitVal(s[Len(s)])

\* String(n) for an integer
RECURSIVE NumToString(_)
NumToString(n) ==
    IF n < 0 THEN <<"-">> \o NumToString(0 - n)
    ELSE IF n < 10 THEN <<DigitChars[n + 1]>>
    ELSE NumToString(n \div 10) \o <<DigitChars[(n % 10) + 1]>>

\* ToString of a value, as a template literal or Array.prototype.join applies it
JSToString(v) ==
    CASE v.t = "str" -> v.s
      [] v.t = "num" -> NumToString(v.n)
      [] v.t = "nan" -> <<"N", "a", "N">>
      [] OTHER -> <<"u", "n", "d", "e", "f", "i", "n", "e", "d">>

---------------------------------------------------------------------------
(* VersionManager.calculateNextVersion  (test/workflow.test.js 46-77) *)

\* \d+ is greedy and the character after it in versionRegex is never a digit, so
\* the group starting at i ends at the last digit of the run of digits starting
\* at i; 0 when s[i] is no digit (\d+ needs at least one).
RECURSIVE DigitRunEnd(_, _)
DigitRunEnd(s, i) ==
    IF i > Len(s) \/ ~IsDigit(s[i]) THEN 0
    ELSE IF i + 1 <= Len(s) /\ IsDigit(s[i + 1]) THEN DigitRunEnd(s, i + 1)
    ELSE i

NoMatch == <<>>

\* Variant of the match below with the $ anchor forgotten: /^(\d+)\.(\d+)\.(\d+)/
RegExpMatch_NoEndAnchor(s) ==
    LET e1 == DigitRunEnd(s, 1) IN
    IF e1 = 0 \/ e1 + 1 > Len(s) \/ s[e1 + 1] # "." THEN <<>>
    ELSE LET e2 == DigitRunEnd(s, e1 + 2) IN
    IF e2 = 0 \/ e2 + 1 > Len(s) \/ s[e2 + 1] # "." THEN <<>>
    ELSE LET e3 == DigitRunEnd(s, e2 + 2) IN
    IF e3 = 0 THEN <<>>
    ELSE << SubSeq(s, 1, e3), SubSeq(s, 1, e1), SubSeq(s, e1 + 2, e2),
            SubSeq(s, e2 + 2, e3) >>

\* currentVersion.match(/^(\d+)\.(\d+)\.(\d+)$/): null (NoMatch) or the array
\* [whole match, group 1, group 2, group 3].  ^ and $ anchor at the two ends of
\* the input (no m flag: $ does not match before a trailing line break).
RegExpMatch(s) ==
    LET e1 == DigitRunEnd(s, 1) IN
    IF e1 = 0 \/ e1 + 1 > Len(s) \/ s[e1 + 1] # "." THEN NoMatch
    ELSE LET e2 == DigitRunEnd(s, e1 + 2) IN
    IF e2 = 0 \/ e2 + 1 > Len(s) \/ s[e2 + 1] # "." THEN NoMatch
    ELSE LET e3 == DigitRunEnd(s, e2 + 2) IN
    IF e3 = 0 \/ e3 # Len(s) THEN NoMatch
    ELSE << s, SubSeq(s, 1, e1), SubSeq(s, e1 + 2, e2), SubSeq(s, e2 + 2, e3) >>

InvalidVersionFormat ==
    << "I", "n", "v", "a", "l", "i", "d", " ", "v", "e", "r", "s", "i", "o", "n",
       " ", "f", "o", "r", "m", "a", "t", ":", " " >>

\* throw new Error(`Invalid version format: ${currentVersion}`)
ErrorMessage(currentVersion) == InvalidVersionFormat \o currentVersion

Thrown(message) == [threw |-> TRUE, value |-> <<>>, message |-> message]
Returned(value) == [threw |-> FALSE, value |-> value, message |-> <<>>]
NoResult == [threw |-> FALSE, value |-> <<>>, message |-> <<>>]

\* Variants of the switch with one slip each, used to show that the properties
\* below depend on it.

\* patch: the bump script's rule (anything below 100 becomes 100)
NextTriple_Below100(major, minor, patch, kind) ==
    CASE kind = "major" -> << major + 1, 0, 0 >>
      [] kind = "minor" -> << major, minor + 1, 0 >>
      [] OTHER -> IF patch + 1 < 100 THEN << major, minor, 100 >>
                  ELSE << major, minor, patch + 1 >>

\* minor: patch is not reset
NextTriple_MinorKeepsPatch(major, minor, patch, kind) ==
    CASE kind = "major" -> << major + 1, 0, 0 >>
      [] kind = "minor" -> << major, minor + 1, patch >>
      [] OTHER -> IF patch = 0 THEN << major, minor, 100 >> ELSE << major, minor, patch + 1 >>

\* patch: 100 is a floor that 100 itself does not leave
NextTriple_FloorAt100(major, minor, patch, kind) ==
    CASE kind = "major" -> << major + 1, 0, 0 >>
      [] kind = "minor" -> << major, minor + 1, 0 >>
      [] OTHER -> IF patch <= 100 THEN << major, minor, 100 >>
                  ELSE << major, minor, patch + 1 >>

\* default: a case of its own that leaves the version alone
NextTriple_DefaultKeeps(major, minor, patch, kind) ==
    CASE kind = "major" -> << major + 1, 0, 0 >>
      [] kind = "minor" -> << major, minor + 1, 0 >>
      [] kind = "patch" ->
            IF patch = 0 THEN << major, minor, 100 >> ELSE << major, minor, patch + 1 >>
      [] OTHER -> << major, minor, patch >>

\* patch: plain patch + 1, also from 0
NextTriple_PlainPatch(major, minor, patch, kind) ==
    CASE kind = "major" -> << major + 1, 0, 0 >>
      [] kind = "minor" -> << major, minor + 1, 0 >>
      [] OTHER -> << major, minor, patch + 1 >>

\* the switch of lines 56-75 on the numbers major, minor, patch
NextTriple(major, minor, patch, kind) ==
    CASE kind = "major" -> << major + 1, 0, 0 >>
      [] kind = "minor" -> << major, minor + 1, 0 >>
      [] OTHER -> \* case 'patch': default:
            IF patch = 0 THEN << major, minor, 100 >> ELSE << major, minor, patch + 1 >>

\* `${major}.${minor}.${patch}`
Template(t) ==
    NumToString(t[1]) \o <<".">> \o NumToString(t[2]) \o <<".">> \o NumToString(t[3])

\* increment = 'patch' is the default parameter value: it replaces undefined only
calculateNextVersion(currentVersion, kindArg) ==
    LET kind == IF kindArg = Undefined THEN "patch" ELSE kindArg
        match == RegExpMatch(currentVersion)
    IN  IF match = NoMatch THEN Thrown(ErrorMessage(currentVersion))
        ELSE Returned(Template(NextTriple(ToNumber(match[2]), ToNumber(match[3]),
                                          ToNumber(match[4]), kind)))

---------------------------------------------------------------------------
(* The bump script upgrade_version.js  (unnamed/part_000) *)

\* String.prototype.split('.') : the pieces between the dots, as Str values
RECURSIVE SplitFrom(_, _, _)
SplitFrom(s, i, piece) ==
    IF i > Len(s) THEN << Str(piece) >>
    ELSE IF s[i] = "." THEN << Str(piece) >> \o SplitFrom(s, i + 1, <<>>)
    ELSE SplitFrom(s, i + 1, Append(piece, s[i]))

Split(s) == SplitFrom(s, 1, <<>>)

\* arr[k] for a 0-based index k: undefined beyond the end
ArrayGet(arr, k) == IF k + 1 <= Len(arr) THEN arr[k + 1] ELSE Hole

\* arr[k] = v for a 0-based index k: an assignment beyond the end leaves holes
ArraySet(arr, k, v) ==
    [i \in 1..(IF k + 1 > Len(arr) THEN k + 1 ELSE Len(arr)) |->
        IF i = k + 1 THEN v ELSE IF i <= Len(arr) THEN arr[i] ELSE Hole]

\* Array.prototype.join('.'): undefined elements and holes render as ''
RECURSIVE Join(_)
Join(arr) ==
    IF arr = <<>> THEN <<>>
    ELSE LET last == arr[Len(arr)]
             text == IF last.t = "undefined" THEN <<>> ELSE JSToString(last)
         IN  IF Len(arr) = 1 THEN text
             ELSE Join(SubSeq(arr, 1, Len(arr) - 1)) \o <<".">> \o text

RECURSIVE SkipWhiteSpace(_, _)
SkipWhiteSpace(s, i) ==
    IF i <= Len(s) /\ IsWhiteSpace(s[i]) THEN SkipWhiteSpace(s, i + 1) ELSE i

\* parseInt(v, 10): ToString, leading white space skipped, an optional sign, then
\* the longest prefix of decimal digits; NaN when that prefix is empty
parseInt(v) ==
    LET s == JSToString(v)
        i == SkipWhiteSpace(s, 1)
        signed == i <= Len(s) /\ s[i] \in {"-", "+"}
        j == IF signed THEN i + 1 ELSE i
        e == DigitRunEnd(s, j)
    IN  IF e = 0 THEN NaN
        ELSE LET n == ToNumber(SubSeq(s, j, e))
             IN  Num(IF signed /\ s[i] = "-" THEN 0 - n ELSE n)

\* v + 1 for the result of parseInt
Plus1(v) == IF v.t = "num" THEN Num(v.n + 1) ELSE NaN

\* v < 100 : false for NaN
LessThan100(v) == v.t = "num" /\ v.n < 100

\* Variant of the default below: process.argv[2] ?? 'patch'
versionBumpType_Nullish(argv2) == IF argv2 = Undefined THEN "patch" ELSE argv2

\* process.argv[2] || 'patch' : undefined and '' are falsy
versionBumpType(argv2) == IF argv2 = Undefined \/ argv2 = "" THEN "patch" ELSE argv2

\* Variant of the switch below: major does not reset minor
BumpParts_MajorKeepsMinor(versionParts, kind) ==
    CASE kind = "patch" ->
            LET bumped == ArraySet(versionParts, 2, Plus1(parseInt(ArrayGet(versionParts, 2))))
            IN  IF LessThan100(ArrayGet(bumped, 2)) THEN ArraySet(bumped, 2, Num(100))
                ELSE bumped
      [] kind = "minor" ->
            ArraySet(ArraySet(versionParts, 1, Plus1(parseInt(ArrayGet(versionParts, 1)))),
                     2, Num(0))
      [] kind = "major" ->
            ArraySet(ArraySet(versionParts, 0, Plus1(parseInt(ArrayGet(versionParts, 0)))),
                     2, Num(0))

\* the switch of lines 18-41 on versionParts
BumpParts(versionParts, kind) ==
    CASE kind = "patch" ->
            LET bumped == ArraySet(versionParts, 2, Plus1(parseInt(ArrayGet(versionParts, 2))))
            IN  IF LessThan100(ArrayGet(bumped, 2)) THEN ArraySet(bumped, 2, Num(100))
                ELSE bumped
      [] kind = "minor" ->
            ArraySet(ArraySet(versionParts, 1, Plus1(parseInt(ArrayGet(versionParts, 1)))),
                     2, Num(0))
      [] kind = "major" ->
            ArraySet(ArraySet(ArraySet(versionParts, 0,
                                       Plus1(parseInt(ArrayGet(versionParts, 0)))),
                              1, Num(0)),
                     2, Num(0))

\* upgradePackageJSONVersion: the new version computed from packageJson.version
upgradePackageJSONVersion(packageVersion, kind) ==
    Join(BumpParts(Split(packageVersion), kind))

InvalidBumpType == "Invalid version bump type. Use major, minor, or patch."

---------------------------------------------------------------------------
(* VersionManager's file operations  (test/workflow.test.js 30-37, 84-92) *)

\* JSON values: an object is its members in order, each a key and a string
JObject(fields) == [kind |-> "object", fields |-> fields]
JArray == [kind |-> "array", fields |-> <<>>]
JNull == [kind |-> "null", fields |-> <<>>]
JNumber == [kind |-> "number", fields |-> <<>>]

\* The text of a file: the JSON value it denotes, if any, and its layout
JSONText(json, indent, newline) ==
    [valid |-> TRUE, json |-> json, indent |-> indent, newline |-> newline]
NotJSON == [valid |-> FALSE, json |-> JNull, indent |-> 0, newline |-> FALSE]

FileWith(text) == [exists |-> TRUE, text |-> text]
NoFile == [exists |-> FALSE, text |-> NotJSON]

\* JSON.parse(fs.readFileSync(path, 'utf8')): throws for a missing file and for
\* text that is not JSON; the layout of the text is lost
JSONParseFile(file) ==
    IF ~file.exists \/ ~file.text.valid THEN [threw |-> TRUE, json |-> JNull]
    ELSE [threw |-> FALSE, json |-> file.text.json]

\* JSON.stringify(value, null, 2) + '\n'
JSONStringify2(json) == JSONText(json, 2, TRUE)

HasKey(fields, key) == \E i \in 1..Len(fields) : fields[i].key = key

\* value.version : undefined when there is no such member, and for an array or
\* a number; reading a property of null throws a TypeError
GetVersionProperty(json) ==
    IF json.kind = "null" THEN [threw |-> TRUE, value |-> Hole]
    ELSE IF json.kind = "object" /\ HasKey(json.fields, "version")
    THEN [threw |-> FALSE,
          value |-> Str(json.fields[CHOOSE i \in 1..Len(json.fields) :
                                        json.fields[i].key = "version"].value)]
    ELSE [threw |-> FALSE, value |-> Hole]

\* static getCurrentVersion(packagePath): every failure inside the try is
\* rethrown as 'Failed to read version from ...'
getCurrentVersion(file) ==
    LET parsed == JSONParseFile(file)
    IN  IF parsed.threw THEN [threw |-> TRUE, value |-> Hole]
        ELSE GetVersionProperty(parsed.json)

\* Variant of the assignment below that builds a fresh object { version }
SetVersionProperty_FreshObject(json, newVersion) ==
    IF json.kind \in {"null", "number"} THEN [threw |-> TRUE, json |-> json]
    ELSE IF json.kind = "array" THEN [threw |-> FALSE, json |-> json]
    ELSE [threw |-> FALSE,
          json |-> JObject(<< [key |-> "version", value |-> newVersion] >>)]

\* Variant of the assignment below that is forgotten
SetVersionProperty_Forgotten(json, newVersion) ==
    IF json.kind \in {"null", "number"} THEN [threw |-> TRUE, json |-> json]
    ELSE [threw |-> FALSE, json |-> json]

\* packageData.version = newVersion, in the strict code of a class body: a
\* TypeError for null and for a number; on an object the member is replaced in
\* place or added last; on an array it sets a property that is no element, so
\* the value JSON.stringify writes is the array as it was
SetVersionProperty(json, newVersion) ==
    IF json.kind \in {"null", "number"} THEN [threw |-> TRUE, json |-> json]
    ELSE IF json.kind = "array" THEN [threw |-> FALSE, json |-> json]
    ELSE IF HasKey(json.fields, "version")
    THEN [threw |-> FALSE,
          json |-> JObject([i \in 1..Len(json.fields) |->
                              IF json.fields[i].key = "version"
                              THEN [key |-> "version", value |-> newVersion]
                              ELSE json.fields[i]])]
    ELSE [threw |-> FALSE,
          json |-> JObject(Append(json.fields, [key |-> "version", value |-> newVersion]))]

\* static updatePackageVersion(newVersion, packagePath): the file after the
\* call, and whether the call threw 'Failed to update version in ...'
updatePackageVersion(newVersion, file) ==
    LET parsed == JSONParseFile(file)
        assigned == SetVersionProperty(parsed.json, newVersion)
    IN  IF parsed.threw \/ assigned.threw THEN [threw |-> TRUE, file |-> file]
        ELSE [threw |-> FALSE, file |-> FileWith(JSONStringify2(assigned.json))]

\* calculateNextVersion(currentVersion) on what getCurrentVersion returned:
\* undefined.match(...) throws a TypeError
CalculateNextOf(value) ==
    IF value.t = "str" THEN calculateNextVersion(value.s, Undefined)
    ELSE Thrown(<<"T", "y", "p", "e", "E", "r", "r", "o", "r">>)

NoUpdate == [done |-> FALSE, threw |-> FALSE, newVersion |-> <<>>, before |-> NoFile]

PkgIdle ==
    /\ packageFile = NoFile
    /\ pkgPc = "unused"
    /\ got = [threw |-> FALSE, value |-> Hole]
    /\ computed = NoResult
    /\ lastUpdate = NoUpdate
    /\ cycles = 0

---------------------------------------------------------------------------
(* ChangelogManager.generateChangelogEntry  (test/workflow.test.js 108-119) *)

\* String.prototype.split(sep) for a one-character separator: the pieces
\* between successive separators, one more than there are separators
SplitBy(s, sep) ==
    LET at == {i \in 1..Len(s) : s[i] = sep}
        nth(k) == IF k = 0 THEN 0
                  ELSE IF k > Cardinality(at) THEN Len(s) + 1
                  ELSE CHOOSE i \in at : Cardinality({j \in at : j < i}) = k - 1
    IN  [k \in 1..(Cardinality(at) + 1) |-> SubSeq(s, nth(k - 1) + 1, nth(k) - 1)]

\* Array.prototype.join(sep) for an array of strings
RECURSIVE JoinWith(_, _)
JoinWith(pieces, sep) ==
    IF pieces = <<>> THEN <<>>
    ELSE IF Len(pieces) = 1 THEN pieces[1]
    ELSE pieces[1] \o sep \o JoinWith(Tail(pieces), sep)

\* n in decimal, padded with zeros to w digits
RECURSIVE Pad(_, _)
Pad(n, w) == IF w = 0 THEN <<>> ELSE Pad(n \div 10, w - 1) \o <<DigitChars[(n % 10) + 1]>>

\* Date.prototype.toISOString(): YYYY-MM-DDTHH:mm:ss.sssZ, in UTC
toISOString(date) ==
    Pad(date.year, 4) \o <<"-">> \o Pad(date.month, 2) \o <<"-">> \o Pad(date.day, 2)
        \o <<"T">> \o Pad(date.hour, 2) \o <<":">> \o Pad(date.minute, 2) \o <<":">>
        \o Pad(date.second, 2) \o <<".">> \o Pad(date.ms, 3) \o <<"Z">>

\* Variant of substring below that takes one character more
substring_OneMore(s, from, to) ==
    SubSeq(s, (IF from > Len(s) THEN Len(s) ELSE from) + 1,
              IF to + 1 > Len(s) THEN Len(s) ELSE to + 1)

\* String.prototype.substring(from, to) for 0 <= from <= to: both clamped to
\* the length of the string
substring(s, from, to) ==
    SubSeq(s, (IF from > Len(s) THEN Len(s) ELSE from) + 1,
              IF to > Len(s) THEN Len(s) ELSE to)

EntryOpen == << "#", "#", " ", "[" >>
EntryDate == << "]", " ", "-", " " >>
EntryAuthor ==
    << "\n", "\n", "*", "*", "A", "u", "t", "h", "o", "r", ":", "*", "*",
       " " >>
EntryCommit ==
    << "\n", "*", "*", "C", "o", "m", "m", "i", "t", ":", "*", "*", " ",
       "[" >>
EntryUrl ==
    << "]", "(", "h", "t", "t", "p", "s", ":", "/", "/", "g", "i", "t", "h",
       "u", "b", ".", "c", "o", "m", "/", "o", "w", "n", "e", "r", "/", "r",
       "e", "p", "o", "/", "c", "o", "m", "m", "i", "t", "/" >>
EntryMessage ==
    << ")", "\n", "*", "*", "M", "e", "s", "s", "a", "g", "e", ":", "*", "*",
       " " >>
EntryEnd == << "\n", "\n" >>

\* static generateChangelogEntry(version, commitData), at the time `now`
generateChangelogEntry(entryVersion, commitData, now) ==
    LET currentDate == SplitBy(toISOString(now), "T")[1]
        shortSha == substring(commitData.sha, 0, 7)
    IN  EntryOpen \o entryVersion \o EntryDate \o currentDate
            \o EntryAuthor \o commitData.author
            \o EntryCommit \o shortSha \o EntryUrl \o commitData.sha
            \o EntryMessage \o commitData.message \o EntryEnd

---------------------------------------------------------------------------
(* ChangelogManager.updateChangelog  (test/workflow.test.js 126-155)        *)

ChangelogWith(content) == [exists |-> TRUE, content |-> content]
NoChangelog == [exists |-> FALSE, content |-> <<>>]

\* the content written for a file that does not exist yet
DefaultHeader ==
    << "#", " ", "C", "h", "a", "n", "g", "e", "l", "o", "g", "\n", "\n",
       "A", "l", "l", " ", "n", "o", "t", "a", "b", "l", "e", " ", "c", "h",
       "a", "n", "g", "e", "s", " ", "t", "o", " ", "t", "h", "i", "s", " ",
       "p", "r", "o", "j", "e", "c", "t", " ", "w", "i", "l", "l", " ", "b",
       "e", " ", "d", "o", "c", "u", "m", "e", "n", "t", "e", "d", " ", "i",
       "n", " ", "t", "h", "i", "s", " ", "f", "i", "l", "e", ".", "\n",
       "\n" >>

\* String.prototype.trim(): white space removed at both ends
RECURSIVE TrimStart(_)
TrimStart(s) == IF s # <<>> /\ IsWhiteSpace(Head(s)) THEN TrimStart(Tail(s)) ELSE s

RECURSIVE TrimEnd(_)
TrimEnd(s) ==
    IF s # <<>> /\ IsWhiteSpace(s[Len(s)]) THEN TrimEnd(SubSeq(s, 1, Len(s) - 1)) ELSE s

trim(s) == TrimEnd(TrimStart(s))

\* Array.prototype.indexOf(line): 0-based index of the first equal element
indexOf(lines, line) ==
    IF \E i \in 1..Len(lines) : lines[i] = line
    THEN (CHOOSE i \in 1..Len(lines) :
            lines[i] = line /\ \A j \in 1..(i - 1) : lines[j] # line) - 1
    ELSE -1

\* line => line.trim() === '' && lines.indexOf(line) > 2
IsHeaderEnd(lines, line) == trim(line) = <<>> /\ indexOf(lines, line) > 2

\* Array.prototype.findIndex with the predicate above: 0-based, -1 for none
findIndex(lines) ==
    IF \E i \in 1..Len(lines) : IsHeaderEnd(lines, lines[i])
    THEN (CHOOSE i \in 1..Len(lines) :
            /\ IsHeaderEnd(lines, lines[i])
            /\ \A j \in 1..(i - 1) : ~IsHeaderEnd(lines, lines[j])) - 1
    ELSE -1

\* x || 3 for a number x: only 0 is falsy
OrThree(x) == IF x = 0 THEN 3 ELSE x

\* Array.prototype.slice(from, to) for 0 <= from <= to, and slice(from)
slice(lines, from, to) == SubSeq(lines, from + 1, IF to > Len(lines) THEN Len(lines) ELSE to)
sliceFrom(lines, from) == SubSeq(lines, from + 1, Len(lines))

\* Variant of updateChangelog below whose afterHeader starts one line late
updateChangelog_DropsLine(newEntry, file) ==
    LET existingContent == IF file.exists THEN file.content ELSE DefaultHeader
        lines == SplitBy(existingContent, "\n")
        headerEndIndex == OrThree(findIndex(lines))
        beforeHeader == slice(lines, 0, headerEndIndex + 1)
        afterHeader == sliceFrom(lines, headerEndIndex + 2)
    IN  ChangelogWith(JoinWith(beforeHeader \o << newEntry >> \o afterHeader, << "\n" >>))

\* static updateChangelog(newEntry, changelogPath): the file after the call
updateChangelog(newEntry, file) ==
    LET existingContent == IF file.exists THEN file.content ELSE DefaultHeader
        lines == SplitBy(existingContent, "\n")
        headerEndIndex == OrThree(findIndex(lines))
        beforeHeader == slice(lines, 0, headerEndIndex + 1)
        afterHeader == sliceFrom(lines, headerEndIndex + 1)
    IN  ChangelogWith(JoinWith(beforeHeader \o << newEntry >> \o afterHeader, << "\n" >>))

NoCommit == [sha |-> <<>>, author |-> <<>>, message |-> <<>>]
NoDate == [year |-> 0, month |-> 0, day |-> 0, hour |-> 0, minute |-> 0, second |-> 0, ms |-> 0]
NoEntryInput == [version |-> <<>>, commitData |-> NoCommit, now |-> NoDate]

ClIdle ==
    /\ changelogFile = NoChangelog
    /\ clPc = "unused"
    /\ entryInput = NoEntryInput
    /\ changelogEntry = <<>>
    /\ inserted = <<>>
    /\ lastBefore = NoChangelog

---------------------------------------------------------------------------
(* The workflow  (.github/workflows/auto-changelog.yml)                      *)

\* a substring test that distinguishes letter case: bash [[ s =~ literal ]]
IsSubstring(hay, needle) ==
    \E i \in 0..(Len(hay) - Len(needle)) : SubSeq(hay, i + 1, i + Len(needle)) = needle

UpperCase == << "A", "B", "C", "D", "E", "F", "G", "H", "I", "J", "K", "L", "M",
                "N", "O", "P", "Q", "R", "S", "T", "U", "V", "W", "X", "Y", "Z" >>
LowerCase == << "a", "b", "c", "d", "e", "f", "g", "h", "i", "j", "k", "l", "m",
                "n", "o", "p", "q", "r", "s", "t", "u", "v", "w", "x", "y", "z" >>

toLowerCase(s) ==
    [i \in 1..Len(s) |->
        IF \E k \in 1..26 : UpperCase[k] = s[i]
        THEN LowerCase[CHOOSE k \in 1..26 : UpperCase[k] = s[i]]
        ELSE s[i]]

\* Variant of contains below that distinguishes letter case
contains_CaseSensitive(search, item) == IsSubstring(search, item)

\* contains(search, item) of a workflow expression: a substring test that
\* ignores letter case
contains(search, item) == IsSubstring(toLowerCase(search), toLowerCase(item))

SkipMarker == << "[", "s", "k", "i", "p", "-", "c", "h", "a", "n", "g", "e", "l", "o", "g", "]" >>
ChoreMarker ==
    << "c", "h", "o", "r", "e", ":", " ", "u", "p", "d", "a", "t", "e", " ",
       "v", "e", "r", "s", "i", "o", "n", " ", "a", "n", "d", " ", "c", "h",
       "a", "n", "g", "e", "l", "o", "g" >>
MinorMarker == << "[", "m", "i", "n", "o", "r", "-", "u", "p", "g", "r", "a", "d", "e", "]" >>

\* jobs.update-changelog.if
JobCondition(message) == ~contains(message, SkipMarker) /\ ~contains(message, ChoreMarker)

\* on.push.branches
TriggerBranches == {"master", "main"}

\* CHANGELOG.md as its lines: a line is the k-th line of the header (v empty)
\* or the k-th line of the entry of version v
HeaderLine(k) == [v |-> <<>>, k |-> k]
EntryLine(v, k) == [v |-> v, k |-> k]
ChangelogLines(lines) == [exists |-> TRUE, lines |-> lines]
MissingChangelog == [exists |-> FALSE, lines |-> <<>>]

\* echo "$CHANGELOG_ENTRY" > changelog_temp.md: the nine lines from '## [v]' to
\* '___', three of them empty, and two empty lines after them
EntryLines(v) == [k \in 1..11 |-> EntryLine(v, k)]

VersionCommitMessage_NoMarker(v) ==
    << "u", "p", "d", "a", "t", "e", " ", "v", "e", "r", "s", "i", "o", "n", " ", "t", "o", " " >> \o v

\* git commit -m "chore: update version and changelog to $NEW_VERSION [skip-changelog]"
VersionCommitMessage(v) ==
    << "c", "h", "o", "r", "e", ":", " ", "u", "p", "d", "a", "t", "e", " ", "v", "e", "r", "s", "i", "o", "n", " ", "a", "n", "d", " ", "c", "h", "a", "n", "g", "e", "l", "o", "g", " ", "t", "o", " " >>
        \o v \o << " ", "[", "s", "k", "i", "p", "-", "c", "h", "a", "n", "g", "e", "l", "o", "g", "]" >>

\* sed -i '4r changelog_temp.md' CHANGELOG.md: the lines of the entry are put
\* after line 4, if the file has a line 4
SedAppendAfter4(lines, v) ==
    IF Len(lines) >= 4
    THEN SubSeq(lines, 1, 4) \o EntryLines(v) \o SubSeq(lines, 5, Len(lines))
    ELSE lines

TagName(v) == << "v" >> \o v

NoEvent ==
    [message |-> <<>>, hasPR |-> FALSE, prTitle |-> <<>>, branch |-> "none", by |-> "none"]

NoRun ==
    [pc |-> "none", prTitle |-> <<>>, currentVersion |-> <<>>, versionType |-> "none",
     printed |-> <<>>, version |-> <<>>, package |-> <<>>, changelog |-> MissingChangelog,
     committed |-> FALSE, base |-> 0, localCommit |-> FALSE]

NoRemote ==
    [version |-> <<>>, changelog |-> MissingChangelog, versionCommits |-> <<>>,
     tags |-> {}, pushedTags |-> {}, releases |-> {}]

WfIdle ==
    /\ branchName = "none"
    /\ remote = NoRemote
    /\ event = NoEvent
    /\ atTrigger = NoRemote
    /\ run = NoRun
    /\ pushes = 0
    /\ branchHead = 0
    /\ pending = NoEvent
    /\ delivery = NoEvent

ChainIdle ==
    /\ chainBy = "none"
    /\ chain = <<>>
    /\ chainKinds = <<>>

---------------------------------------------------------------------------
(* The Express app  (server.js 4-17, unnamed/part_002 6-18)                  *)

HelloWorld == << "H", "e", "l", "l", "o", " ", "W", "o", "r", "l", "d" >>
NotFound == << "N", "o", "t", " ", "F", "o", "u", "n", "d" >>
SomethingBroke == << "S", "o", "m", "e", "t", "h", "i", "n", "g", " ", "b", "r", "o", "k", "e", "!" >>

\* the response object of a request that no handler has touched yet
NewResponse == [statusCode |-> 200, body |-> <<>>, headersSent |-> FALSE]

\* what the handling of one request has done so far: the response, the
\* handlers invoked in order, those invoked after the response was sent, the
\* number of responses sent, the lines logged, whether the socket was
\* destroyed, whether done() is scheduled with setImmediate
NewContext ==
    [res |-> NewResponse, trace |-> <<>>, afterSend |-> <<>>, sends |-> 0,
     logged |-> <<>>, destroyed |-> FALSE, threw |-> FALSE, deferred |-> FALSE]

Invoked(ctx, handler) ==
    [ctx EXCEPT !.trace = Append(@, handler),
                !.afterSend = IF ctx.res.headersSent THEN Append(@, handler) ELSE @]

\* res.status(code)
status(ctx, code) == [ctx EXCEPT !.res.statusCode = code]

\* res.send(body): throws once the headers are sent; a HEAD request is
\* answered without the body
send(ctx, req, body) ==
    IF ctx.res.headersSent THEN [ctx EXCEPT !.threw = TRUE]
    ELSE [ctx EXCEPT !.res.body = IF req.method = "HEAD" THEN <<>> ELSE body,
                     !.res.headersSent = TRUE,
                     !.sends = @ + 1]

\* console.log(`${req.method} ${req.url}`)
logRequest(ctx, req) == [ctx EXCEPT !.logged = Append(@, << req.method, req.url >>)]

\* Variant of pathname below that keeps the query string
pathname_WithQuery(url) == url

\* parseurl(req).pathname: the URL up to the first '?'
pathname(url) ==
    IF \E i \in 1..Len(url) : url[i] = "?"
    THEN SubSeq(url, 1, (CHOOSE i \in 1..Len(url) :
                            url[i] = "?" /\ \A j \in 1..(i - 1) : url[j] # "?") - 1)
    ELSE url

\* the route layer of app.get('/', ...): the path is '/', and the method is one
\* the route handles (a HEAD request is handled by the GET route)
RouteMatchesPath(req) == pathname(req.url) = << "/" >>
RouteHandlesMethod(req) == req.method \in {"GET", "HEAD"}

\* finalhandler: does nothing for a response in flight and no error; for an
\* error after the headers were sent it destroys the socket
finalhandler(ctx, req, err) ==
    LET c == Invoked(ctx, "finalhandler")
    IN  IF ~err /\ c.res.headersSent THEN c
        ELSE IF c.res.headersSent THEN [c EXCEPT !.destroyed = TRUE]
        ELSE send(status(c, IF err THEN 500 ELSE 404), req, << "C", "a", "n", "n", "o", "t" >>)

\* the router's answer to OPTIONS when the stack is exhausted and a route
\* matched the path: res.set('Allow', ...) throws once the headers are sent,
\* and the error goes to the final handler
sendOptionsResponse(ctx, req) ==
    LET c == Invoked(ctx, "sendOptionsResponse")
    IN  IF c.res.headersSent THEN finalhandler(c, req, TRUE)
        ELSE send(c, req, << "G", "E", "T", ",", "H", "E", "A", "D" >>)

\* done(), run by setImmediate after the stack was exhausted
done(ctx, req) ==
    LET c == [ctx EXCEPT !.deferred = FALSE]
    IN  IF req.method = "OPTIONS" /\ RouteMatchesPath(req) THEN sendOptionsResponse(c, req)
        ELSE finalhandler(c, req, FALSE)

\* next() past the last layer: setImmediate(done)
endOfStack(ctx) == [ctx EXCEPT !.deferred = TRUE]

\* .use((err, req, res, next) => ...): passed over when there is no error
errorHandler(ctx, req, err) ==
    IF err THEN send(status(logRequest(Invoked(ctx, "error"), req), 500), req, SomethingBroke)
    ELSE endOfStack(ctx)

\* .use((req, res, next) => ...): server.js calls next() after the response,
\* part_002 does not
notFoundHandler(which, ctx, req) ==
    LET c == send(status(logRequest(Invoked(ctx, "notFound"), req), 404), req, NotFound)
    IN  IF which = "server.js" THEN errorHandler(c, req, FALSE) ELSE c

\* .get('/', (req, res) => ...): part_002 logs the request first
helloHandler(which, ctx, req) ==
    LET c == Invoked(ctx, "hello")
    IN  send(IF which = "part_002" THEN logRequest(c, req) ELSE c, req, HelloWorld)

\* app.handle(req, res): the layers in the order they were added
handle(which, req) ==
    IF RouteMatchesPath(req) /\ RouteHandlesMethod(req) THEN helloHandler(which, NewContext, req)
    ELSE notFoundHandler(which, NewContext, req)

HttpIdle ==
    /\ app = "none"
    /\ requests = <<>>
    /\ console = <<>>

GroupIdle ==
    /\ groupRuns = <<>>
    /\ branchVersion = <<>>

---------------------------------------------------------------------------
(* Inputs *)

\* the increment kinds tried: omitted, empty, the three kinds, an unknown one
Kinds == {Undefined, "", "major", "minor", "patch", "bogus"}

RECURSIVE StringsUpTo(_, _)
StringsUpTo(chars, n) ==
    IF n = 0 THEN {}
    ELSE LET shorter == StringsUpTo(chars, n - 1)
         IN  {<<c>> : c \in chars} \cup shorter
                \cup {Append(s, c) : s \in shorter, c \in chars}

\* patch components: 0, 1, 9, 10, 99, 100, 199, 999, ... and 00, 01, 010, ...
PatchTokens == StringsUpTo({"0", "1", "9"}, MaxDigits)

MajorMinorTokens == {<<"0">>, <<"1">>, <<"9">>, <<"0", "1">>, <<"1", "0">>}

Triplets ==
    {a \o <<".">> \o b \o <<".">> \o c :
        a \in MajorMinorTokens, b \in MajorMinorTokens, c \in PatchTokens}

\* parts of malformed strings: empty, a number, a 'v' prefix, a letter suffix,
\* leading and trailing white space, a trailing line break, a sign
JunkTokens ==
    {<<>>, <<"1">>, <<"v", "1">>, <<"1", "a">>, <<" ", "1">>, <<"1", " ">>, <<"1", "\n">>,
     <<"-", "1">>}

RECURSIVE Dotted(_)
Dotted(n) ==
    IF n = 1 THEN JunkTokens
    ELSE {s \o <<".">> \o t : s \in Dotted(n - 1), t \in JunkTokens}

VersionInputs == Triplets \cup UNION {Dotted(n) : n \in 1..MaxParts}

---------------------------------------------------------------------------
(* Behaviour *)

Init ==
    /\ version \in VersionInputs
    /\ increment \in Kinds
    /\ pc = "ready"
    /\ script = "idle"
    /\ arg = <<>>
    /\ returned = NoResult
    /\ calls = 0
    /\ stdout = <<>>
    /\ stderr = <<>>
    /\ exitCode = 0
    /\ packageRead = FALSE
    /\ PkgIdle
    /\ ClIdle
    /\ WfIdle
    /\ ChainIdle
    /\ HttpIdle
    /\ GroupIdle

\* VersionManager.calculateNextVersion(version, increment)
CallCalculateNextVersion ==
    /\ pc = "ready"
    /\ arg' = version
    /\ returned' = calculateNextVersion(version, increment)
    /\ calls' = 1
    /\ pc' = "called"
    /\ UNCHANGED <<version, increment, script, stdout, stderr, exitCode, packageRead>>
    /\ UNCHANGED notBumpVars

\* the caller feeds the version returned to a further call with the same kind
CallAgain ==
    /\ pc = "called"
    /\ ~returned.threw
    /\ calls < MaxCalls
    /\ arg' = returned.value
    /\ returned' = calculateNextVersion(returned.value, increment)
    /\ calls' = calls + 1
    /\ UNCHANGED <<version, increment, pc, script, stdout, stderr, exitCode,
                   packageRead>>
    /\ UNCHANGED notBumpVars

\* node upgrade_version.js [increment], with package.json holding `version`
RunUpgradeScript ==
    /\ script = "idle"
    /\ script' = "exited"
    /\ LET kind == versionBumpType(increment) IN
       IF kind \notin {"major", "minor", "patch"}
       THEN /\ stderr' = Append(stderr, InvalidBumpType)
            /\ exitCode' = 1
            /\ UNCHANGED <<stdout, packageRead>>
       ELSE /\ packageRead' = TRUE
            /\ stdout' = Append(stdout, upgradePackageJSONVersion(version, kind))
            /\ exitCode' = 0
            /\ UNCHANGED stderr
    /\ UNCHANGED <<version, increment, pc, arg, returned, calls>>
    /\ UNCHANGED notBumpVars

Next == CallCalculateNextVersion \/ CallAgain \/ RunUpgradeScript

Spec == Init /\ [][Next]_vars

---------------------------------------------------------------------------
(* Behaviour of the file operations: read -> calculate -> write cycles on one *)
(* package.json, and a direct updatePackageVersion followed by a read        *)

NameField == [key |-> "name", value |-> <<"t", "e", "s", "t">>]
DescriptionField == [key |-> "description", value |-> <<"T", "e", "s", "t">>]
VersionField(v) == [key |-> "version", value |-> v]

\* versions a package.json is given: the triplets and two malformed strings
PackageVersions ==
    Triplets \cup {<<"1", ".", "1">>, <<"v", "1", ".", "1", ".", "1">>}

\* files holding an object with a version member: the mock package of the
\* tests (written without a final line break), and a compact { version }
FilesWithVersion(v) ==
    { FileWith(JSONText(JObject(<<NameField, VersionField(v), DescriptionField>>), 2, FALSE)),
      FileWith(JSONText(JObject(<<VersionField(v)>>), 0, TRUE)) }

\* the other files: none, not JSON, JSON that is no object, an object with no
\* version member
FilesWithoutVersion ==
    { NoFile, FileWith(NotJSON),
      FileWith(JSONText(JNull, 0, FALSE)), FileWith(JSONText(JArray, 0, FALSE)),
      FileWith(JSONText(JNumber, 0, FALSE)),
      FileWith(JSONText(JObject(<<NameField, DescriptionField>>), 2, FALSE)) }

\* versions handed to a direct updatePackageVersion
DirectVersions == {<<"2", ".", "0", ".", "0">>, <<"1", ".", "1", ".", "0">>}

BumpUnused ==
    /\ increment = Undefined
    /\ pc = "unused"
    /\ script = "unused"
    /\ arg = <<>>
    /\ returned = NoResult
    /\ calls = 0
    /\ stdout = <<>>
    /\ stderr = <<>>
    /\ exitCode = 0
    /\ packageRead = FALSE

PackageInit ==
    /\ \/ /\ version \in PackageVersions
          /\ packageFile \in FilesWithVersion(version)
       \/ /\ version = <<>>
          /\ packageFile \in FilesWithoutVersion
    /\ pkgPc = "idle"
    /\ got = [threw |-> FALSE, value |-> Hole]
    /\ computed = NoResult
    /\ lastUpdate = NoUpdate
    /\ cycles = 0
    /\ BumpUnused
    /\ ClIdle
    /\ WfIdle
    /\ ChainIdle
    /\ HttpIdle
    /\ GroupIdle

\* VersionManager.getCurrentVersion(path): at the start of a cycle, and after
\* an update
CallGetCurrentVersion ==
    /\ \/ pkgPc = "idle"
       \/ pkgPc = "written"
       \/ pkgPc = "set"
    /\ got' = getCurrentVersion(packageFile)
    /\ pkgPc' = IF got'.threw THEN "failed"
                ELSE IF pkgPc = "set" THEN "reread" ELSE "read"
    /\ UNCHANGED <<packageFile, computed, lastUpdate, cycles>>
    /\ UNCHANGED notPkgVars

\* VersionManager.calculateNextVersion(currentVersion) with the default kind
CallCalculateNext ==
    /\ pkgPc = "read"
    /\ cycles < MaxCycles
    /\ computed' = CalculateNextOf(got.value)
    /\ pkgPc' = IF computed'.threw THEN "failed" ELSE "calculated"
    /\ UNCHANGED <<packageFile, got, lastUpdate, cycles>>
    /\ UNCHANGED notPkgVars

\* VersionManager.updatePackageVersion(newVersion, path) ending a cycle
CallUpdatePackageVersion ==
    /\ pkgPc = "calculated"
    /\ LET result == updatePackageVersion(computed.value, packageFile)
       IN  /\ packageFile' = result.file
           /\ lastUpdate' = [done |-> TRUE, threw |-> result.threw,
                             newVersion |-> computed.value, before |-> packageFile]
           /\ pkgPc' = IF result.threw THEN "failed" ELSE "written"
    /\ cycles' = cycles + 1
    /\ UNCHANGED <<got, computed>>
    /\ UNCHANGED notPkgVars

\* VersionManager.updatePackageVersion(v, path) called on its own
CallUpdateDirectly ==
    /\ pkgPc = "idle"
    /\ \E v \in DirectVersions :
        LET result == updatePackageVersion(v, packageFile)
        IN  /\ packageFile' = result.file
            /\ lastUpdate' = [done |-> TRUE, threw |-> result.threw,
                              newVersion |-> v, before |-> packageFile]
            /\ pkgPc' = "set"
    /\ UNCHANGED <<got, computed, cycles>>
    /\ UNCHANGED notPkgVars

PackageNext ==
    CallGetCurrentVersion \/ CallCalculateNext \/ CallUpdatePackageVersion
        \/ CallUpdateDirectly

PackageSpec == PackageInit /\ [][PackageNext]_vars

---------------------------------------------------------------------------
(* Behaviour of ChangelogManager: one generateChangelogEntry call on a wide *)
(* range of inputs, and generate -> update rounds on one CHANGELOG.md       *)

MockSha == << "a", "b", "c", "1", "2", "3", "d", "e", "f", "4", "5", "6", "7", "8", "9" >>
MockAuthor == << "T", "e", "s", "t", " ", "A", "u", "t", "h", "o", "r" >>
MockMessage ==
    << "f", "e", "a", "t", ":", " ", "a", "d", "d", " ", "n", "e", "w", " ",
       "f", "e", "a", "t", "u", "r", "e", " ", "f", "o", "r", " ", "t", "e",
       "s", "t", "i", "n", "g" >>
SecondMessage == << "f", "i", "x", ":", " ", "c", "r", "i", "t", "i", "c", "a", "l", " ", "b", "u", "g", " ", "f", "i", "x" >>
\* a message whose middle line is a single space
SpacedMessage == << "a", "\n", " ", "\n", "b" >>

Shas == {SubSeq(MockSha, 1, n) : n \in 0..MaxShaLen} \cup {MockSha}
Authors == {MockAuthor, <<>>}
Messages == {MockMessage, SpacedMessage, <<>>}

Date(y, mo, d, h, mi, sec, ms) ==
    [year |-> y, month |-> mo, day |-> d, hour |-> h, minute |-> mi, second |-> sec, ms |-> ms]
Dates == {Date(2024, 7, 4, 14, 30, 25, 0), Date(2023, 1, 1, 0, 0, 0, 0),
          Date(1999, 12, 31, 23, 59, 59, 999)}

EntryVersions == {Template(<<1, 2, 100>>), Template(<<2, 0, 0>>)}

AnyEntryInputs ==
    [version : EntryVersions,
     commitData : [sha : Shas, author : Authors, message : Messages],
     now : Dates]

\* the versions of successive rounds, as calculateNextVersion gives them from 1.2.0
RoundVersion(k) == Template(<<1, 2, 99 + k>>)

RoundCommits ==
    {[sha |-> MockSha, author |-> MockAuthor, message |-> MockMessage],
     [sha |-> MockSha, author |-> MockAuthor, message |-> SecondMessage],
     [sha |-> SubSeq(MockSha, 1, 3), author |-> MockAuthor, message |-> SpacedMessage]}

RoundInputs(k) ==
    [version : {RoundVersion(k)}, commitData : RoundCommits, now : {Date(2024, 7, 4, 14, 30, 25, 0)}]

\* initial files: all texts of up to MaxLines lines that are empty, a space or a word
LineTokens == {<<>>, << " " >>, << "x" >>}

RECURSIVE LineSeqs(_)
LineSeqs(n) ==
    IF n = 0 THEN {<<>>}
    ELSE {<<>>} \cup {<< l >> \o rest : l \in LineTokens, rest \in LineSeqs(n - 1)}

OlderEntry ==
    << "#", "#", " ", "[", "1", ".", "2", ".", "3", "]", " ", "-", " ", "2",
       "0", "2", "3", "-", "0", "1", "-", "0", "1", "\n", "\n", "O", "l",
       "d", "e", "r", " ", "e", "n", "t", "r", "y", "\n" >>

\* the header with CRLF line ends
CrLfHeader == << "#", " ", "C", "\r", "\n", "\r", "\n", "D", "\r", "\n", "\r", "\n" >>

InitialChangelogs ==
    {NoChangelog}
        \cup {ChangelogWith(JoinWith(ls, << "\n" >>)) : ls \in LineSeqs(MaxLines) \ {<<>>}}
        \cup {ChangelogWith(DefaultHeader), ChangelogWith(DefaultHeader \o OlderEntry),
              ChangelogWith(CrLfHeader)}

OthersUnused ==
    /\ version = <<>>
    /\ BumpUnused
    /\ PkgIdle
    /\ WfIdle
    /\ ChainIdle
    /\ HttpIdle
    /\ GroupIdle

EntryInit ==
    /\ changelogFile = NoChangelog
    /\ clPc = "idle"
    /\ entryInput = NoEntryInput
    /\ changelogEntry = <<>>
    /\ inserted = <<>>
    /\ lastBefore = NoChangelog
    /\ OthersUnused

GenerateAnyEntry ==
    /\ clPc = "idle"
    /\ \E in \in AnyEntryInputs :
        /\ entryInput' = in
        /\ changelogEntry' = generateChangelogEntry(in.version, in.commitData, in.now)
    /\ clPc' = "generated"
    /\ UNCHANGED <<changelogFile, inserted, lastBefore>>
    /\ UNCHANGED notClVars

EntryNext == GenerateAnyEntry

EntrySpec == EntryInit /\ [][EntryNext]_vars

ChangelogInit ==
    /\ changelogFile \in InitialChangelogs
    /\ clPc = "idle"
    /\ entryInput = NoEntryInput
    /\ changelogEntry = <<>>
    /\ inserted = <<>>
    /\ lastBefore = NoChangelog
    /\ OthersUnused

GenerateEntry ==
    /\ clPc \in {"idle", "updated"}
    /\ Len(inserted) < MaxEntries
    /\ \E in \in RoundInputs(Len(inserted) + 1) :
        /\ entryInput' = in
        /\ changelogEntry' = generateChangelogEntry(in.version, in.commitData, in.now)
    /\ clPc' = "generated"
    /\ UNCHANGED <<changelogFile, inserted, lastBefore>>
    /\ UNCHANGED notClVars

CallUpdateChangelog ==
    /\ clPc = "generated"
    /\ lastBefore' = changelogFile
    /\ changelogFile' = updateChangelog(changelogEntry, changelogFile)
    /\ inserted' = Append(inserted, changelogEntry)
    /\ clPc' = "updated"
    /\ UNCHANGED <<entryInput, changelogEntry>>
    /\ UNCHANGED notClVars

ChangelogNext == GenerateEntry \/ CallUpdateChangelog

ChangelogSpec == ChangelogInit /\ [][ChangelogNext]_vars

---------------------------------------------------------------------------
(* Behaviour of the workflow: users push to a repository whose default       *)
(* branch is master or main; each push to it starts one run, and the runs of *)
(* one branch follow each other (concurrency group, cancel-in-progress:      *)
(* false). The Slack steps change nothing in the repository and are left out *)

HeadMessages ==
    { << "f", "e", "a", "t", ":", " ", "a", "d", "d" >>,
      << "f", "i", "x", " ", "[", "m", "i", "n", "o", "r", "-", "u", "p", "g", "r", "a", "d", "e", "]" >>,
      << "d", "o", "c", "s", " ", "[", "s", "k", "i", "p", "-", "c", "h", "a", "n", "g", "e", "l", "o", "g", "]" >>,
      << "d", "o", "c", "s", " ", "[", "S", "K", "I", "P", "-", "C", "H", "A", "N", "G", "E", "L", "O", "G", "]" >>,
      << "c", "h", "o", "r", "e", ":", " ", "u", "p", "d", "a", "t", "e", " ", "v", "e", "r", "s", "i", "o", "n", " ", "a", "n", "d", " ", "c", "h", "a", "n", "g", "e", "l", "o", "g" >>,
      << "s", "k", "i", "p", "-", "c", "h", "a", "n", "g", "e", "l", "o", "g" >> }

PRTitles ==
    { << "F", "e", "a", "t", "u", "r", "e", " ", "[", "m", "i", "n", "o", "r", "-", "u", "p", "g", "r", "a", "d", "e", "]" >>,
      << "F", "i", "x" >> }

PushEvents(branches) ==
    [message : HeadMessages, hasPR : {FALSE}, prTitle : {<<>>}, branch : branches,
     by : {"user"}]
        \cup [message : HeadMessages, hasPR : {TRUE}, prTitle : PRTitles, branch : branches,
               by : {"user"}]

RepoVersions == {Template(<<1, 2, 0>>), Template(<<1, 2, 100>>)}

\* CHANGELOG.md in the repository: missing, empty, three lines, the four lines
\* of the standard header
RepoChangelogs ==
    {MissingChangelog} \cup {ChangelogLines([k \in 1..n |-> HeaderLine(k)]) : n \in {0, 3, 4}}

WorkflowInit ==
    /\ branchName \in TriggerBranches
    /\ remote \in [version : RepoVersions, changelog : RepoChangelogs, versionCommits : {<<>>},
                   tags : {{}}, pushedTags : {{}}, releases : {{}}]
    /\ event = NoEvent
    /\ atTrigger = NoRemote
    /\ run = NoRun
    /\ pushes = 0
    /\ branchHead = 0
    /\ pending = NoEvent
    /\ delivery = NoEvent
    /\ version = <<>>
    /\ BumpUnused
    /\ PkgIdle
    /\ ClIdle
    /\ ChainIdle
    /\ HttpIdle
    /\ GroupIdle

RunOver == run.pc \in {"none", "untriggered", "skipped", "done", "failed"}

\* a user pushes to the default branch or to another one; on: push: branches
\* a push to a branch of on.push.branches makes a run that waits in the
\* concurrency group of the branch, where it replaces a run still waiting
UserPush ==
    /\ pushes < MaxPushes
    /\ \E ev \in PushEvents({branchName, "dev"}) :
        IF ev.branch \in TriggerBranches
        THEN /\ pending = NoEvent \/ ~RunOver
             /\ pending' = ev
             /\ branchHead' = branchHead + 1
             /\ UNCHANGED <<event, run, atTrigger>>
        ELSE /\ RunOver
             /\ pending = NoEvent
             /\ event' = ev
             /\ run' = [NoRun EXCEPT !.pc = "untriggered"]
             /\ atTrigger' = remote
             /\ UNCHANGED <<branchHead, pending>>
    /\ pushes' = pushes + 1
    /\ UNCHANGED <<branchName, remote, delivery>>
    /\ UNCHANGED notWfVars

\* concurrency: group ${{ github.workflow }}-${{ github.ref }}: the waiting run
\* starts when no run of the group is in progress
StartRun ==
    /\ RunOver
    /\ pending # NoEvent
    /\ event' = pending
    /\ run' = [NoRun EXCEPT !.pc = "queued"]
    /\ atTrigger' = remote
    /\ pending' = NoEvent
    /\ UNCHANGED <<branchName, remote, pushes, branchHead, delivery>>
    /\ UNCHANGED notWfVars

\* jobs.update-changelog.if; a skipped job has its dependents skipped as well
EvaluateJobCondition ==
    /\ run.pc = "queued"
    /\ run' = [run EXCEPT !.pc = IF JobCondition(event.message) THEN "running" ELSE "skipped"]
    /\ UNCHANGED <<branchName, remote, event, atTrigger, pushes, branchHead, pending, delivery>>
    /\ UNCHANGED notWfVars

\* Checkout repository .. Pull latest changes from master: git fetch origin
\* master fails where there is no master branch
PullLatestChanges ==
    /\ run.pc = "running"
    /\ run' = IF branchName = "master"
              THEN [run EXCEPT !.pc = "pulled", !.package = remote.version,
                               !.changelog = remote.changelog, !.base = branchHead]
              ELSE [run EXCEPT !.pc = "failed"]
    /\ UNCHANGED <<branchName, remote, event, atTrigger, pushes, branchHead, pending, delivery>>
    /\ UNCHANGED notWfVars

\* Get PR title and author
GetPRTitle ==
    /\ run.pc = "pulled"
    /\ run' = [run EXCEPT !.pc = "pr_info",
                          !.prTitle = IF event.hasPR THEN event.prTitle ELSE event.message]
    /\ UNCHANGED <<branchName, remote, event, atTrigger, pushes, branchHead, pending, delivery>>
    /\ UNCHANGED notWfVars

\* Read current version from package.json
ReadCurrentVersion ==
    /\ run.pc = "pr_info"
    /\ run' = [run EXCEPT !.pc = "current_version", !.currentVersion = run.package]
    /\ UNCHANGED <<branchName, remote, event, atTrigger, pushes, branchHead, pending, delivery>>
    /\ UNCHANGED notWfVars

\* Run version upgrade script: the script prints the version it computed and
\* writes no file; the step's output is read from package.json afterwards
RunVersionUpgradeScript ==
    /\ run.pc = "current_version"
    /\ LET VERSION_TYPE == IF IsSubstring(run.prTitle, MinorMarker) THEN "minor" ELSE "patch"
       IN  run' = [run EXCEPT !.pc = "upgrade_version",
                              !.versionType = VERSION_TYPE,
                              !.printed = upgradePackageJSONVersion(run.package, VERSION_TYPE),
                              !.version = run.package]
    /\ UNCHANGED <<branchName, remote, event, atTrigger, pushes, branchHead, pending, delivery>>
    /\ UNCHANGED notWfVars

\* Update changelog: sed fails on a missing file
UpdateChangelogStep ==
    /\ run.pc = "upgrade_version"
    /\ run' = IF run.changelog.exists
              THEN [run EXCEPT !.pc = "changelog",
                               !.changelog =
                                    ChangelogLines(SedAppendAfter4(run.changelog.lines, run.version))]
              ELSE [run EXCEPT !.pc = "failed"]
    /\ UNCHANGED <<branchName, remote, event, atTrigger, pushes, branchHead, pending, delivery>>
    /\ UNCHANGED notWfVars

\* Commit and push changes: git commit fails when nothing changed; git push
\* is refused when the branch has commits the run did not pull; the tag is
\* made for minor upgrades only, and git tag fails when the tag exists
CommitAndPush ==
    /\ run.pc = "changelog"
    /\ LET NEW_VERSION == run.version
           changed == run.changelog # remote.changelog \/ run.package # remote.version
           pushed == [remote EXCEPT !.version = run.package,
                                    !.changelog = run.changelog,
                                    !.versionCommits = Append(@, NEW_VERSION)]
           ownPush == [message |-> VersionCommitMessage(NEW_VERSION), hasPR |-> FALSE,
                       prTitle |-> <<>>, branch |-> branchName, by |-> "workflow"]
       IN  IF ~changed
           THEN /\ run' = [run EXCEPT !.pc = "failed"]
                /\ UNCHANGED <<remote, branchHead, delivery>>
           ELSE IF branchHead # run.base
           THEN /\ run' = [run EXCEPT !.pc = "failed", !.localCommit = TRUE]
                /\ UNCHANGED <<remote, branchHead, delivery>>
           ELSE /\ branchHead' = branchHead + 1
                /\ delivery' = ownPush
                /\ IF ~IsSubstring(run.prTitle, MinorMarker)
                   THEN /\ run' = [run EXCEPT !.pc = "committed", !.localCommit = TRUE,
                                              !.committed = TRUE]
                        /\ remote' = pushed
                   ELSE IF TagName(NEW_VERSION) \in remote.tags
                   THEN /\ run' = [run EXCEPT !.pc = "failed", !.localCommit = TRUE,
                                              !.committed = TRUE]
                        /\ remote' = pushed
                   ELSE /\ run' = [run EXCEPT !.pc = "committed", !.localCommit = TRUE,
                                              !.committed = TRUE]
                        /\ remote' = [pushed EXCEPT !.tags = @ \cup {TagName(NEW_VERSION)},
                                                    !.pushedTags = @ \cup {TagName(NEW_VERSION)}]
    /\ UNCHANGED <<branchName, event, atTrigger, pushes, pending>>
    /\ UNCHANGED notWfVars

\* job create-release (needs: update-changelog, if: success()): the release of
\* tag v<version of package.json on the branch>; the tag is made by GitHub when
\* it does not exist, and the release is refused when the tag has one
CreateRelease ==
    /\ run.pc = "committed"
    /\ LET tag == TagName(remote.version)
       IN  IF tag \in remote.releases
           THEN /\ run' = [run EXCEPT !.pc = "failed"]
                /\ remote' = remote
           ELSE /\ run' = [run EXCEPT !.pc = "done"]
                /\ remote' = [remote EXCEPT !.releases = @ \cup {tag}, !.tags = @ \cup {tag}]
    /\ UNCHANGED <<branchName, event, atTrigger, pushes, branchHead, pending, delivery>>
    /\ UNCHANGED notWfVars

\* checkout with token: ${{ secrets.GITHUB_TOKEN }}: GitHub starts no run for a
\* push made with that token
TokenPushStartsNoRun ==
    /\ delivery # NoEvent
    /\ delivery' = NoEvent
    /\ UNCHANGED <<branchName, remote, event, atTrigger, run, pushes, branchHead, pending>>
    /\ UNCHANGED notWfVars

\* on: push: were the push of a run handled as any other push is, its run
\* would wait in the concurrency group as well
OwnPushQueued ==
    /\ delivery # NoEvent
    /\ pending = NoEvent \/ ~RunOver
    /\ pending' = delivery
    /\ delivery' = NoEvent
    /\ UNCHANGED <<branchName, remote, event, atTrigger, run, pushes, branchHead>>
    /\ UNCHANGED notWfVars

WorkflowNext ==
    \/ UserPush
    \/ StartRun
    \/ EvaluateJobCondition
    \/ PullLatestChanges
    \/ GetPRTitle
    \/ ReadCurrentVersion
    \/ RunVersionUpgradeScript
    \/ UpdateChangelogStep
    \/ CommitAndPush
    \/ CreateRelease
    \/ TokenPushStartsNoRun
    \/ OwnPushQueued

WorkflowSpec == WorkflowInit /\ [][WorkflowNext]_vars

---------------------------------------------------------------------------
(* Chains of bumps: calculateNextVersion called again and again on what it   *)
(* returned, or the bump script run again and again on a package.json that   *)
(* holds what it printed, the kind chosen freely each time                   *)

ChainStarts ==
    {Template(<<a, b, c>>) : a \in {0, 9}, b \in {0, 9}, c \in {0, 1, 98, 99, 100}}
        \cup {<< "0", "1", ".", "0", "9", ".", "0", "0" >>}

ChainInit ==
    /\ chainBy \in {"calculateNextVersion", "upgrade_version.js"}
    /\ chain \in {<< v >> : v \in ChainStarts}
    /\ chainKinds = <<>>
    /\ version = <<>>
    /\ BumpUnused
    /\ PkgIdle
    /\ ClIdle
    /\ WfIdle
    /\ HttpIdle
    /\ GroupIdle

\* newVersion = VersionManager.calculateNextVersion(currentVersion, kind)
CallNextInChain ==
    /\ chainBy = "calculateNextVersion"
    /\ Len(chain) <= MaxChain
    /\ \E kind \in Kinds :
        LET result == calculateNextVersion(chain[Len(chain)], kind)
        IN  /\ ~result.threw
            /\ chain' = Append(chain, result.value)
            /\ chainKinds' = Append(chainKinds, kind)
    /\ UNCHANGED chainBy
    /\ UNCHANGED notChainVars

\* node upgrade_version.js [kind], on the version the run before printed; an
\* argument the script refuses prints no version
RunNextInChain ==
    /\ chainBy = "upgrade_version.js"
    /\ Len(chain) <= MaxChain
    /\ \E argument \in Kinds :
        LET kind == versionBumpType(argument)
        IN  /\ kind \in {"major", "minor", "patch"}
            /\ chain' = Append(chain, upgradePackageJSONVersion(chain[Len(chain)], kind))
            /\ chainKinds' = Append(chainKinds, argument)
    /\ UNCHANGED chainBy
    /\ UNCHANGED notChainVars

ChainNext == CallNextInChain \/ RunNextInChain

ChainSpec == ChainInit /\ [][ChainNext]_vars

---------------------------------------------------------------------------
(* Behaviour of the HTTP app: requests arrive and are handled one at a time, *)
(* each in one run of the synchronous handler chain, in any order            *)

Methods == {"GET", "HEAD", "POST", "PUT", "DELETE", "OPTIONS"}

Urls ==
    { << "/" >>,
      << "/", "?", "n", "a", "m", "e", "=", "t", "e", "s", "t" >>,
      << "/", "u", "n", "k", "n", "o", "w", "n", "-", "r", "o", "u", "t", "e" >>,
      << "/", "%", "2", "F" >> }

HttpInit ==
    /\ app \in {"server.js", "part_002"}
    /\ requests = <<>>
    /\ console = <<>>
    /\ version = <<>>
    /\ BumpUnused
    /\ PkgIdle
    /\ ClIdle
    /\ WfIdle
    /\ ChainIdle
    /\ GroupIdle

\* a request arrives
ReceiveRequest ==
    /\ Len(requests) < MaxRequests
    /\ \E method \in Methods, url \in Urls :
        requests' = Append(requests, [method |-> method, url |-> url, handled |-> FALSE,
                                      ctx |-> NewContext])
    /\ UNCHANGED <<app, console>>
    /\ UNCHANGED notHttpVars

\* app.handle(req, res) for one of the requests that wait
HandleRequest ==
    /\ \E i \in 1..Len(requests) :
        /\ ~requests[i].handled
        /\ LET ctx == handle(app, requests[i])
           IN  /\ requests' = [requests EXCEPT ![i].handled = TRUE, ![i].ctx = ctx]
               /\ console' = console \o ctx.logged
    /\ UNCHANGED app
    /\ UNCHANGED notHttpVars

\* the done() that a handled request scheduled
RunDone ==
    /\ \E i \in 1..Len(requests) :
        /\ requests[i].handled
        /\ requests[i].ctx.deferred
        /\ requests' = [requests EXCEPT ![i].ctx = done(requests[i].ctx, requests[i])]
    /\ UNCHANGED <<app, console>>
    /\ UNCHANGED notHttpVars

HttpNext == ReceiveRequest \/ HandleRequest \/ RunDone

HttpSpec == HttpInit /\ [][HttpNext]_vars

---------------------------------------------------------------------------
(* Runs of the workflow in their concurrency groups: every push to master or *)
(* main makes a run; a run waits while a run of its group is in progress, a  *)
(* newer waiting run of the group replaces it, and a run in progress pulls   *)
(* the branch, then pushes its version commit on top of what it pulled       *)

WorkflowName == "Auto Changelog Update"

Refs == {"refs/heads/master", "refs/heads/main"}

ConcurrencyGroup_PerRun(r) == <<WorkflowName, r.ref, r.id>>

\* group: ${{ github.workflow }}-${{ github.ref }}
ConcurrencyGroup(r) == <<WorkflowName, r.ref>>

\* cancel-in-progress: false
CancelInProgress == FALSE

NewRun(id, ref) ==
    [id |-> id, ref |-> ref, state |-> "pending", started |-> FALSE, pulled |-> FALSE,
     read |-> 0]

InProgress(rs, group) ==
    {i \in 1..Len(rs) : rs[i].state = "in_progress" /\ ConcurrencyGroup(rs[i]) = group}

\* the runs of the group that a new run of it cancels
Replaced(rs, group) ==
    {i \in 1..Len(rs) :
        /\ ConcurrencyGroup(rs[i]) = group
        /\ \/ rs[i].state = "pending"
           \/ CancelInProgress /\ rs[i].state = "in_progress"}

ConcurrencyInit ==
    /\ groupRuns = <<>>
    /\ branchVersion = [ref \in Refs |-> 0]
    /\ version = <<>>
    /\ BumpUnused
    /\ PkgIdle
    /\ ClIdle
    /\ WfIdle
    /\ ChainIdle
    /\ HttpIdle

\* on: push: a run is made and waits in its group
QueueRun ==
    /\ Len(groupRuns) < MaxRuns
    /\ \E ref \in Refs :
        LET new == NewRun(Len(groupRuns) + 1, ref)
            cancelled == Replaced(groupRuns, ConcurrencyGroup(new))
        IN  groupRuns' = Append([i \in 1..Len(groupRuns) |->
                                    IF i \in cancelled
                                    THEN [groupRuns[i] EXCEPT !.state = "cancelled"]
                                    ELSE groupRuns[i]], new)
    /\ UNCHANGED branchVersion
    /\ UNCHANGED notGroupVars

\* a waiting run starts when no run of its group is in progress
BeginRun ==
    /\ \E i \in 1..Len(groupRuns) :
        /\ groupRuns[i].state = "pending"
        /\ InProgress(groupRuns, ConcurrencyGroup(groupRuns[i])) = {}
        /\ groupRuns' = [groupRuns EXCEPT ![i].state = "in_progress", ![i].started = TRUE]
    /\ UNCHANGED branchVersion
    /\ UNCHANGED notGroupVars

\* Pull latest changes .. Read current version from package.json
PullVersion ==
    /\ \E i \in 1..Len(groupRuns) :
        /\ groupRuns[i].state = "in_progress"
        /\ ~groupRuns[i].pulled
        /\ groupRuns' = [groupRuns EXCEPT ![i].pulled = TRUE,
                                          ![i].read = branchVersion[groupRuns[i].ref]]
    /\ UNCHANGED branchVersion
    /\ UNCHANGED notGroupVars

\* Commit and push changes: the push is refused when the branch is no longer
\* where the run pulled it
PushVersion ==
    /\ \E i \in 1..Len(groupRuns) :
        LET r == groupRuns[i]
        IN  /\ r.state = "in_progress"
            /\ r.pulled
            /\ IF branchVersion[r.ref] = r.read
               THEN /\ branchVersion' = [branchVersion EXCEPT ![r.ref] = r.read + 1]
                    /\ groupRuns' = [groupRuns EXCEPT ![i].state = "completed"]
               ELSE /\ branchVersion' = branchVersion
                    /\ groupRuns' = [groupRuns EXCEPT ![i].state = "failed"]
    /\ UNCHANGED notGroupVars

ConcurrencyNext ==
    \/ QueueRun
    \/ BeginRun
    \/ PullVersion
    \/ PushVersion

ConcurrencySpec == ConcurrencyInit /\ [][ConcurrencyNext]_vars

---------------------------------------------------------------------------
(* Vocabulary of the properties: a dotted triplet and its three numbers,     *)
(* stated on the characters of the string and not through the parsers above *)

AllDigits(s) == s # <<>> /\ \A i \in 1..Len(s) : s[i] \in {"0", "1", "2", "3", "4", "5", "6", "7", "8", "9"}

Dots(s) == {i \in 1..Len(s) : s[i] = "."}

\* exactly three dot-separated runs of decimal digits
IsTriplet(s) ==
    /\ Cardinality(Dots(s)) = 2
    /\ LET i == CHOOSE x \in Dots(s) : \A y \in Dots(s) : x <= y
           j == CHOOSE x \in Dots(s) : \A y \in Dots(s) : y <= x
       IN  /\ AllDigits(SubSeq(s, 1, i - 1))
           /\ AllDigits(SubSeq(s, i + 1, j - 1))
           /\ AllDigits(SubSeq(s, j + 1, Len(s)))

\* the k-th dot-separated component of a triplet
Component(s, k) ==
    LET i == CHOOSE x \in Dots(s) : \A y \in Dots(s) : x <= y
        j == CHOOSE x \in Dots(s) : \A y \in Dots(s) : y <= x
    IN  CASE k = 1 -> SubSeq(s, 1, i - 1)
          [] k = 2 -> SubSeq(s, i + 1, j - 1)
          [] OTHER -> SubSeq(s, j + 1, Len(s))

DigitValue ==
    [c \in {"0", "1", "2", "3", "4", "5", "6", "7", "8", "9"} |->
        CASE c = "0" -> 0 [] c = "1" -> 1 [] c = "2" -> 2 [] c = "3" -> 3 [] c = "4" -> 4
          [] c = "5" -> 5 [] c = "6" -> 6 [] c = "7" -> 7 [] c = "8" -> 8 [] OTHER -> 9]

\* the number a run of decimal digits denotes
RECURSIVE Decimal(_)
Decimal(s) == IF s = <<>> THEN 0 ELSE DigitValue[Head(s)] * 10^(Len(s) - 1) + Decimal(Tail(s))

MajorOf(s) == Decimal(Component(s, 1))
MinorOf(s) == Decimal(Component(s, 2))
PatchOf(s) == Decimal(Component(s, 3))

\* a run of digits with no leading zero
NoLeadingZero(s) == AllDigits(s) /\ (Len(s) > 1 => s[1] # "0")

\* a dotted triplet of three decimal integers with no leading zeros
IsCanonical(s) == IsTriplet(s) /\ \A k \in 1..3 : NoLeadingZero(Component(s, k))

\* s is the triplet of the numbers major, minor, patch
Denotes(s, major, minor, patch) ==
    IsTriplet(s) /\ MajorOf(s) = major /\ MinorOf(s) = minor /\ PatchOf(s) = patch

\* needle occurs in hay
Contains(hay, needle) ==
    \E i \in 0..(Len(hay) - Len(needle)) : SubSeq(hay, i + 1, i + Len(needle)) = needle

Called == pc = "called"
Exited == script = "exited"

\* the version the script printed, when it printed exactly one line
Printed == stdout[1]

---------------------------------------------------------------------------
(* Properties *)

\* C1: for a valid version M.N.P, calculateNextVersion with kind 'patch' or with
\* the kind omitted returns M.N.P' with P' = 100 if P = 0 and P' = P + 1
\* otherwise; M and N are unchanged.
C1_PatchRule ==
    (Called /\ increment \in {"patch", Undefined} /\ IsTriplet(arg)) =>
        /\ ~returned.threw
        /\ Denotes(returned.value, MajorOf(arg), MinorOf(arg),
                   IF PatchOf(arg) = 0 THEN 100 ELSE PatchOf(arg) + 1)

\* 1.9.999 with the kind omitted gives 1.9.1000
C1_Witness ==
    /\ Called /\ calls = 1 /\ increment = Undefined
    /\ arg = <<"1", ".", "9", ".", "9", "9", "9">>
    /\ returned.value = <<"1", ".", "9", ".", "1", "0", "0", "0">>

\* C2: the bump script run with 'patch' or no argument on M.N.P with P # 0
\* prints M.N.(P+1), for every non-zero P, also below 100.
C2_ScriptPatchPlusOne ==
    (Exited /\ increment \in {"patch", Undefined} /\ IsTriplet(version)
        /\ PatchOf(version) # 0) =>
        /\ exitCode = 0
        /\ Len(stdout) = 1
        /\ Denotes(Printed, MajorOf(version), MinorOf(version), PatchOf(version) + 1)

\* C3: for a valid version M.N.P a 'minor' increment gives (M, N+1, 0) whatever
\* P is, in calculateNextVersion and in the bump script.
C3_MinorRule ==
    /\ (Called /\ increment = "minor" /\ IsTriplet(arg)) =>
            /\ ~returned.threw
            /\ Denotes(returned.value, MajorOf(arg), MinorOf(arg) + 1, 0)
    /\ (Exited /\ increment = "minor" /\ IsTriplet(version)) =>
            /\ exitCode = 0
            /\ Len(stdout) = 1
            /\ Denotes(Printed, MajorOf(version), MinorOf(version) + 1, 0)

\* 1.9.199 gives 1.10.0 both ways
C3_Witness ==
    /\ Called /\ Exited /\ calls = 1 /\ increment = "minor"
    /\ version = <<"1", ".", "9", ".", "1", "9", "9">>
    /\ returned.value = <<"1", ".", "1", "0", ".", "0">>
    /\ stdout = << <<"1", ".", "1", "0", ".", "0">> >>

\* C4: for a valid version M.N.P a 'major' increment gives (M+1, 0, 0) whatever
\* N and P are, in calculateNextVersion and in the bump script.
C4_MajorRule ==
    /\ (Called /\ increment = "major" /\ IsTriplet(arg)) =>
            /\ ~returned.threw
            /\ Denotes(returned.value, MajorOf(arg) + 1, 0, 0)
    /\ (Exited /\ increment = "major" /\ IsTriplet(version)) =>
            /\ exitCode = 0
            /\ Len(stdout) = 1
            /\ Denotes(Printed, MajorOf(version) + 1, 0, 0)

\* 9.1.100 gives 10.0.0 both ways
C4_Witness ==
    /\ Called /\ Exited /\ calls = 1 /\ increment = "major"
    /\ version = <<"9", ".", "1", ".", "1", "0", "0">>
    /\ returned.value = <<"1", "0", ".", "0", ".", "0">>
    /\ stdout = << <<"1", "0", ".", "0", ".", "0">> >>

\* C5: calculateNextVersion is never idempotent: what a call returns differs
\* from the version it was given, on the first call and on a further call fed
\* the result of the one before, for every kind.
C5_NeverIdempotent ==
    (Called /\ ~returned.threw) => returned.value # arg

\* 1.1.0 -> 1.1.100 -> 1.1.101: the second 'patch' call
C5_Witness ==
    /\ Called /\ calls = 2 /\ increment = "patch"
    /\ version = <<"1", ".", "1", ".", "0">>
    /\ arg = <<"1", ".", "1", ".", "1", "0", "0">>
    /\ returned.value = <<"1", ".", "1", ".", "1", "0", "1">>

\* C6: calculateNextVersion rejects every string that is not exactly three
\* dot-separated runs of decimal digits: it throws an error whose message
\* contains the string, and returns nothing, for every increment kind.
C6_RejectsMalformed ==
    (Called /\ ~IsTriplet(arg)) =>
        /\ returned.threw
        /\ Contains(returned.message, arg)
        /\ returned.value = <<>>

\* '1.1.1' followed by a line break is rejected, with the string in the message
C6_Witness ==
    /\ Called /\ calls = 1
    /\ arg = <<"1", ".", "1", ".", "1", "\n">>
    /\ returned.threw
    /\ returned.message = InvalidVersionFormat \o arg

\* C7: run against a package.json whose version is no numeric dotted triplet,
\* the bump script prints an error to standard error, exits with a non-zero
\* status and prints no version to standard output.
C7_ScriptRejectsMalformed ==
    (Exited /\ increment \in {"major", "minor", "patch"} /\ ~IsTriplet(version)) =>
        /\ stderr # <<>>
        /\ exitCode # 0
        /\ stdout = <<>>

ScriptRuns == script = "idle" /\ script' = "exited"

\* the script refuses its argument: an error line, a non-zero status, nothing
\* printed, package.json neither read nor changed
ScriptRefuses ==
    /\ Len(stderr') = Len(stderr) + 1
    /\ exitCode' # 0
    /\ stdout' = stdout
    /\ ~packageRead'
    /\ version' = version

\* C8 as stated: every argument other than 'major', 'minor' and 'patch' makes
\* the script print an error and exit with a non-zero status before it reads
\* package.json.
C8_OtherArgumentRefused ==
    [][(ScriptRuns /\ increment \notin {Undefined, "major", "minor", "patch"})
            => ScriptRefuses]_vars

\* C8, amended: every non-empty argument other than 'major', 'minor' and
\* 'patch' makes the script print an error and exit with a non-zero status
\* before it reads package.json, nothing printed and package.json unchanged;
\* with the argument omitted or empty the script does what it does for 'patch'.
C8_ScriptArgument ==
    [][ScriptRuns =>
        /\ (increment \notin {Undefined, "", "major", "minor", "patch"}) => ScriptRefuses
        /\ (increment \in {Undefined, ""}) =>
                /\ exitCode' = 0
                /\ stderr' = stderr
                /\ stdout' = Append(stdout, upgradePackageJSONVersion(version, "patch"))
                /\ version' = version]_vars

\* 'bogus' is refused before package.json is read
C8_Witness ==
    /\ Exited /\ increment = "bogus"
    /\ exitCode = 1
    /\ stderr = <<InvalidBumpType>>
    /\ stdout = <<>>
    /\ ~packageRead

\* C9 as stated: calculateNextVersion called with a kind that is not 'major',
\* 'minor' or 'patch' fails; no default kind stands in for it.
C9_UnknownKindFails ==
    (Called /\ increment \notin {Undefined, "major", "minor", "patch"} /\ IsTriplet(arg))
        => returned.threw

\* C9, amended: calculateNextVersion called with a kind that is not 'major',
\* 'minor' or 'patch' treats it as 'patch': a valid version M.N.P gives the
\* patch increment of it, and the only error is the invalid-version-format
\* error of a malformed version.
C9_UnknownKindIsPatch ==
    (Called /\ increment \notin {Undefined, "major", "minor", "patch"}) =>
        IF IsTriplet(arg)
        THEN /\ ~returned.threw
             /\ Denotes(returned.value, MajorOf(arg), MinorOf(arg),
                        IF PatchOf(arg) = 0 THEN 100 ELSE PatchOf(arg) + 1)
        ELSE /\ returned.threw
             /\ returned.message = InvalidVersionFormat \o arg

\* 1.1.0 with the kind 'bogus' gives 1.1.100
C9_Witness ==
    /\ Called /\ calls = 1 /\ increment = "bogus"
    /\ arg = <<"1", ".", "1", ".", "0">>
    /\ ~returned.threw
    /\ returned.value = <<"1", ".", "1", ".", "1", "0", "0">>

\* C10: every version calculateNextVersion returns and every version the bump
\* script prints is a dotted triplet of three decimal integers with no leading
\* zeros, also when the components of the input carry leading zeros.
C10_OutputCanonical ==
    /\ (Called /\ ~returned.threw) => IsCanonical(returned.value)
    /\ (Exited /\ exitCode = 0) => \A i \in 1..Len(stdout) : IsCanonical(stdout[i])

\* the members of the object in a file that are, or are not, the version
MembersOf(file) == file.text.json.fields
VersionMembers(file) == SelectSeq(MembersOf(file), LAMBDA m : m.key = "version")
OtherMembers(file) == SelectSeq(MembersOf(file), LAMBDA m : m.key # "version")
HoldsObject(file) == file.exists /\ file.text.valid /\ file.text.json.kind = "object"

\* C11: from a package.json holding X.Y.0, after n >= 1 cycles of
\* getCurrentVersion -> calculateNextVersion (default kind) ->
\* updatePackageVersion the file holds X.Y.(99+n), each cycle reading what the
\* cycle before wrote, and no call of a cycle fails.
C11_PatchProgression ==
    (IsTriplet(version) /\ PatchOf(version) = 0) =>
        /\ pkgPc # "failed"
        /\ (cycles >= 1 /\ pkgPc \in {"written", "read", "calculated"}) =>
                /\ HoldsObject(packageFile)
                /\ Len(VersionMembers(packageFile)) = 1
                /\ Denotes(VersionMembers(packageFile)[1].value,
                           MajorOf(version), MinorOf(version), 99 + cycles)
                /\ pkgPc \in {"read", "calculated"} =>
                        got = [threw |-> FALSE,
                               value |-> Str(VersionMembers(packageFile)[1].value)]

\* 1.9.0 after three cycles: the file holds 1.9.102 and the next read returns it
C11_Witness ==
    /\ version = <<"1", ".", "9", ".", "0">>
    /\ cycles = 3 /\ pkgPc = "read"
    /\ got.value = Str(<<"1", ".", "9", ".", "1", "0", "2">>)
    /\ VersionMembers(packageFile) = << VersionField(<<"1", ".", "9", ".", "1", "0", "2">>) >>

\* what C17 says of the latest updatePackageVersion(v, path): it did not fail,
\* a read that follows returns v, and the other members are as they were
UpdateChangedOnlyVersion ==
    /\ ~lastUpdate.threw
    /\ pkgPc # "failed"
    /\ pkgPc \in {"read", "reread"} =>
            got = [threw |-> FALSE, value |-> Str(lastUpdate.newVersion)]
    /\ OtherMembers(packageFile) = OtherMembers(lastUpdate.before)

\* C17 as stated: on every existing file of valid JSON.
C17_AnyValidJSON ==
    (lastUpdate.done /\ lastUpdate.before.exists /\ lastUpdate.before.text.valid)
        => UpdateChangedOnlyVersion

\* C17, amended: updatePackageVersion(v, path) on an existing file holding a
\* JSON object changes only the version member: a following
\* getCurrentVersion(path) returns v and every other member keeps its value.
C17_OnlyVersionChanges ==
    (lastUpdate.done /\ HoldsObject(lastUpdate.before)) => UpdateChangedOnlyVersion

\* the mock package at 1.1.0 set to 2.0.0 and read back
C17_Witness ==
    /\ pkgPc = "reread"
    /\ lastUpdate.newVersion = <<"2", ".", "0", ".", "0">>
    /\ VersionMembers(lastUpdate.before) = << VersionField(<<"1", ".", "1", ".", "0">>) >>
    /\ got.value = Str(<<"2", ".", "0", ".", "0">>)
    /\ OtherMembers(packageFile) = <<NameField, DescriptionField>>

---------------------------------------------------------------------------
(* Properties of ChangelogManager *)

StartsWith(s, prefix) == Len(prefix) <= Len(s) /\ SubSeq(s, 1, Len(prefix)) = prefix

\* the date and time in the form YYYY-MM-DD HH:MM:SS UTC
DateTimeUTC(date) ==
    Pad(date.year, 4) \o <<"-">> \o Pad(date.month, 2) \o <<"-">> \o Pad(date.day, 2)
        \o <<" ">> \o Pad(date.hour, 2) \o <<":">> \o Pad(date.minute, 2) \o <<":">>
        \o Pad(date.second, 2) \o << " ", "U", "T", "C" >>

\* the first n characters of s, all of s when it is shorter
FirstChars(s, n) == IF Len(s) < n THEN s ELSE SubSeq(s, 1, n)

EntryGenerated == clPc = "generated"

\* C12: generateChangelogEntry returns exactly the block
\*   ## [{version}] - {YYYY-MM-DD HH:MM:SS UTC}
\*   (blank) / **Author:** {author} / **Commit:** [{sha7}](https://github.com/owner/repo/commit/{sha})
\*   **Message:** {message} / (blank)
\* with author and message copied verbatim.
C12_DateTimeBlock ==
    EntryGenerated =>
        changelogEntry =
            << "#", "#", " ", "[" >> \o entryInput.version \o << "]", " ", "-", " " >>
                \o DateTimeUTC(entryInput.now)
                \o 
                << "\n", "\n", "*", "*", "A", "u", "t", "h", "o", "r", ":",
                   "*", "*", " " >>
                \o entryInput.commitData.author
                \o 
                << "\n", "*", "*", "C", "o", "m", "m", "i", "t", ":", "*",
                   "*", " ", "[" >>
                \o FirstChars(entryInput.commitData.sha, 7)
                \o 
                << "]", "(", "h", "t", "t", "p", "s", ":", "/", "/", "g",
                   "i", "t", "h", "u", "b", ".", "c", "o", "m", "/", "o",
                   "w", "n", "e", "r", "/", "r", "e", "p", "o", "/", "c",
                   "o", "m", "m", "i", "t", "/" >>
                \o entryInput.commitData.sha
                \o 
                << ")", "\n", "*", "*", "M", "e", "s", "s", "a", "g", "e",
                   ":", "*", "*", " " >>
                \o entryInput.commitData.message \o << "\n", "\n" >>

\* C13: in every generated entry the link label is the first 7 characters of the
\* SHA and the URL ends with the whole SHA; a SHA shorter than 7 characters is
\* the label unchanged, and the call does not fail.
C13_ShaLabel ==
    EntryGenerated =>
        LET sha == entryInput.commitData.sha
            label == IF Len(sha) < 7 THEN sha ELSE SubSeq(sha, 1, 7)
        IN  /\ Contains(changelogEntry,
                    
                << "\n", "*", "*", "C", "o", "m", "m", "i", "t", ":", "*",
                   "*", " ", "[" >> \o label \o << "]", "(" >>)
            /\ Contains(changelogEntry,
                    << "/", "c", "o", "m", "m", "i", "t", "/" >> \o sha \o << ")", "\n" >>)

\* the SHA 'abc' is its own label, the mock SHA is cut to 'abc123d'
C13_Witness ==
    /\ EntryGenerated
    /\ \/ /\ entryInput.commitData.sha = << "a", "b", "c" >>
          /\ Contains(changelogEntry, << "[", "a", "b", "c", "]", "(" >>)
       \/ /\ entryInput.commitData.sha = MockSha
          /\ Contains(changelogEntry, << "[", "a", "b", "c", "1", "2", "3", "d", "]", "(" >>)
    /\ Len(entryInput.commitData.sha) = 3

ChangelogUpdated == clPc = "updated"

\* C14: for a changelog that starts with the standard header, and for a new
\* file, the header lines stay the first lines and the new entry comes
\* directly after them.
C14_AfterHeader ==
    (ChangelogUpdated /\ (~lastBefore.exists \/ StartsWith(lastBefore.content, DefaultHeader)))
        => StartsWith(changelogFile.content, DefaultHeader \o changelogEntry)

\* the text is `before` with `piece` put in at some place
InsertedInto(text, before, piece) ==
    \E p \in 0..Len(before) :
        text = SubSeq(before, 1, p) \o piece \o SubSeq(before, p + 1, Len(before))

\* C15: for every existing file content and every entry, the file after
\* updateChangelog is the prior content with the entry and one joining newline
\* put in at one place: taking them out gives the prior content back.
C15_PriorContentPreserved ==
    (ChangelogUpdated /\ lastBefore.exists) =>
        /\ changelogFile.exists
        /\ \/ InsertedInto(changelogFile.content, lastBefore.content,
                           changelogEntry \o << "\n" >>)
           \/ InsertedInto(changelogFile.content, lastBefore.content,
                           << "\n" >> \o changelogEntry)

\* the header and an older entry, the new entry put before them
C15_Witness ==
    /\ ChangelogUpdated
    /\ lastBefore = ChangelogWith(DefaultHeader \o OlderEntry)
    /\ changelogFile.content = changelogEntry \o << "\n" >> \o DefaultHeader \o OlderEntry

\* where the piece first occurs in the text, past the end when it does not
IndexIn(text, piece) ==
    IF Contains(text, piece)
    THEN CHOOSE i \in 1..Len(text) :
            /\ SubSeq(text, i, i + Len(piece) - 1) = piece
            /\ \A j \in 1..(i - 1) : SubSeq(text, j, j + Len(piece) - 1) # piece
    ELSE Len(text) + 1

\* C16: after any sequence of updateChangelog calls on one file, each newly
\* inserted entry precedes every entry inserted before it.
C16_NewestFirst ==
    \A i \in 1..Len(inserted) : \A j \in (i + 1)..Len(inserted) :
        /\ Contains(changelogFile.content, inserted[i])
        /\ Contains(changelogFile.content, inserted[j])
        /\ IndexIn(changelogFile.content, inserted[j]) < IndexIn(changelogFile.content, inserted[i])

---------------------------------------------------------------------------
(* Properties of the workflow *)

\* the run has passed the step 'Run version upgrade script'
AfterUpgradeStep == run.pc \in {"upgrade_version", "changelog", "committed", "done"}

\* C18: in every run that is not skipped, after the step 'Run version upgrade
\* script' the version in package.json and the step's version output are the
\* next version, computed from the version read before the step: the version
\* advances.
C18_VersionAdvances ==
    AfterUpgradeStep =>
        /\ run.package = run.printed
        /\ run.version = run.printed
        /\ run.version # run.currentVersion

\* the two letters are the same, letter case set aside
SameLetter(a, b) == a = b \/ \E k \in 1..26 : {a, b} = {UpperCase[k], LowerCase[k]}

ContainsAnyCase(hay, needle) ==
    \E i \in 0..(Len(hay) - Len(needle)) :
        \A k \in 1..Len(needle) : SameLetter(hay[i + k], needle[k])

SkipChangelogText == << "[", "s", "k", "i", "p", "-", "c", "h", "a", "n", "g", "e", "l", "o", "g", "]" >>
VersionCommitText ==
    << "c", "h", "o", "r", "e", ":", " ", "u", "p", "d", "a", "t", "e", " ",
       "v", "e", "r", "s", "i", "o", "n", " ", "a", "n", "d", " ", "c", "h",
       "a", "n", "g", "e", "l", "o", "g" >>

\* the push was to master or main and its update-changelog job was decided
JobDecided == event.branch \in {"master", "main"} /\ run.pc \notin {"none", "queued"}

\* the repository is as the push left it: no version change, changelog entry,
\* commit, tag or release
NothingProduced == remote = atTrigger

\* C19 as stated: the markers are looked for as written.
C19_SkipsExactMarkers ==
    JobDecided =>
        /\ run.pc = "skipped" <=> \/ Contains(event.message, SkipChangelogText)
                                  \/ Contains(event.message, VersionCommitText)
        /\ run.pc = "skipped" => NothingProduced

\* C19, amended: the update-changelog job runs for a push to master or main
\* exactly when the head commit message contains neither '[skip-changelog]'
\* nor 'chore: update version and changelog', letter case set aside; when it
\* is skipped, no version change, changelog entry, commit or tag is produced.
C19_SkipsMarkersAnyCase ==
    JobDecided =>
        /\ run.pc = "skipped" <=> \/ ContainsAnyCase(event.message, SkipChangelogText)
                                  \/ ContainsAnyCase(event.message, VersionCommitText)
        /\ run.pc = "skipped" => NothingProduced

\* a second push, with '[SKIP-CHANGELOG]', is skipped after a run that committed
C19_Witness ==
    /\ run.pc = "skipped"
    /\ pushes = 2
    /\ Contains(event.message, << "[", "S", "K", "I", "P" >>)
    /\ Len(remote.versionCommits) = 1
    /\ remote = atTrigger

\* the run is over and has pushed its version commit
CommittedRunOver == run.committed /\ run.pc \in {"done", "failed"}

\* C20: every run that commits a new version also makes the tag v{version} in
\* the repository, whatever the increment kind.
C20_TagForEveryCommit ==
    CommittedRunOver => TagName(run.version) \in (remote.tags \ atTrigger.tags)

---------------------------------------------------------------------------
(* Properties of chains of bumps *)

\* (major, minor, patch) of s is before that of t in lexicographic order
LexLess(s, t) ==
    \/ MajorOf(s) < MajorOf(t)
    \/ MajorOf(s) = MajorOf(t) /\ MinorOf(s) < MinorOf(t)
    \/ MajorOf(s) = MajorOf(t) /\ MinorOf(s) = MinorOf(t) /\ PatchOf(s) < PatchOf(t)

\* C26: along a sequence of calculateNextVersion calls with arbitrary kinds,
\* each fed the result of the one before, the version increases strictly in
\* the lexicographic order of (major, minor, patch): no version occurs twice.
C26_StrictlyIncreasing ==
    chainBy = "calculateNextVersion" =>
        \A i \in 1..Len(chain) : \A j \in (i + 1)..Len(chain) :
            /\ IsTriplet(chain[j])
            /\ LexLess(chain[i], chain[j])
            /\ chain[i] # chain[j]

\* 0.9.99 -> 0.9.100 (patch) -> 0.10.0 (minor) -> 1.0.0 (major)
C26_Witness ==
    /\ chainBy = "calculateNextVersion"
    /\ chainKinds = << "patch", "minor", "major" >>
    /\ chain = << Template(<<0, 9, 99>>), Template(<<0, 9, 100>>), Template(<<0, 10, 0>>),
                  Template(<<1, 0, 0>>) >>

\* C27: in every version reached from a version with patch 0 by major, minor
\* and patch increments, with calculateNextVersion and with the bump script,
\* the patch component is 0 or at least 100, never in 1..99.
C27_PatchNeverBelow100 ==
    (chainBy # "none" /\ PatchOf(chain[1]) = 0) =>
        \A i \in 1..Len(chain) :
            /\ IsTriplet(chain[i])
            /\ PatchOf(chain[i]) = 0 \/ PatchOf(chain[i]) >= 100

\* the script from 9.9.0: 9.9.100 (patch), 9.9.101 (patch), 9.10.0 (minor)
C27_Witness ==
    /\ chainBy = "upgrade_version.js"
    /\ chainKinds = << "patch", Undefined, "minor" >>
    /\ chain = << Template(<<9, 9, 0>>), Template(<<9, 9, 100>>), Template(<<9, 9, 101>>),
                  Template(<<9, 10, 0>>) >>

---------------------------------------------------------------------------
(* Properties of the HTTP app *)

\* the path of a URL: what stands before the query string
PathOf(url) ==
    IF Contains(url, << "?" >>)
    THEN CHOOSE p \in {SubSeq(url, 1, n) : n \in 0..Len(url)} :
            /\ ~Contains(p, << "?" >>)
            /\ Len(p) < Len(url) /\ url[Len(p) + 1] = "?"
    ELSE url

Answer(r) == << r.ctx.res.statusCode, r.ctx.res.body >>

Handled == {i \in 1..Len(requests) : requests[i].handled}

SameAnswerForSameRequest ==
    \A i \in Handled : \A j \in Handled :
        (requests[i].method = requests[j].method
            /\ PathOf(requests[i].url) = PathOf(requests[j].url))
        => Answer(requests[i]) = Answer(requests[j])

C28_NothingAfterResponse ==
    app = "server.js" =>
        \A i \in Handled :
            /\ requests[i].ctx.sends = 1
            /\ requests[i].ctx.afterSend = <<>>

---------------------------------------------------------------------------
(* Further properties of the workflow *)

\* the run got to its 'Update changelog' step and is over
UpdatingRunOver == run.versionType # "none" /\ run.pc \in {"done", "failed"}

HasEntryFor(changelog, v) ==
    changelog.exists /\ \E i \in 1..Len(changelog.lines) : changelog.lines[i] = EntryLine(v, 1)

\* C21: every run that is not skipped ends with CHANGELOG.md holding the entry
\* of its version, whatever CHANGELOG.md was before: missing, empty or shorter
\* than 4 lines.
C21_EntryWhateverTheFile ==
    UpdatingRunOver => HasEntryFor(remote.changelog, run.version)

\* the run in hand is the one of a push that a run of the workflow made, and
\* its job condition has been evaluated
OwnPushDecided == event.by = "workflow" /\ run.pc \notin {"none", "queued"}

\* C24: the workflow never re-triggers itself: the job of a push made by a run
\* is always skipped, and there are never more version commits than user
\* pushes
C24_NeverRetriggers ==
    /\ OwnPushDecided => run.pc = "skipped"
    /\ Len(remote.versionCommits) <= pushes

C24_Witness ==
    /\ OwnPushDecided
    /\ run.pc = "skipped"
    /\ Len(remote.versionCommits) = 1
    /\ pushes = 1

\* C25: a run that made its version commit never ends without the commit on
\* the branch, whatever user pushes land while it is in progress
C25_PushNeverRejected ==
    (run.pc \in {"done", "failed"} /\ run.localCommit) => run.committed

---------------------------------------------------------------------------
(* Properties of the concurrency groups *)

RunsIn(state, ref) ==
    {i \in 1..Len(groupRuns) : groupRuns[i].state = state /\ groupRuns[i].ref = ref}

====
